---- MODULE Spec2Model ----
(***************************************************************************)
(* A model of the EDL editing engine of AI-auto-edit: the App controller   *)
(* (history, persistence, upload, analysis, editing, focus picking) and    *)
(* the VideoPlayer playback synchroniser.                                  *)
(*                                                                         *)
(* Conventions.                                                            *)
(*  - Times are counted in half seconds (1 unit = 0.5 s), so that the      *)
(*    0.5 s threshold of the player's time synchronisation and times such  *)
(*    as 3.5 s are integers.                                               *)
(*  - Array indices are those of the code (0-based); a TLA+ sequence is    *)
(*    indexed by index + 1.                                                *)
(*  - JavaScript null is Null for objects, "null" for strings and          *)
(*    NullIndex for the numeric pickingZoomIndex.                          *)
(*  - A React render is followed by the effects whose dependencies         *)
(*    changed; `pending` names them and no handler runs before they ran.   *)
(***************************************************************************)
EXTENDS Integers, Sequences, FiniteSets, TLC

(***************************************************************************)
(* Bounds of the model.                                                    *)
(***************************************************************************)
\* The length of the video, in half seconds (the media element's duration).
MaxTime == 10
\* History entries the model lets the history grow to.
MaxHist == 3
\* Zooms the model lets add-zoom grow the zoom list to.
MaxZooms == 2
\* Pending notification timers the model keeps track of.
MaxTimers == 2
\* The latest start and the longest span of the subtitle SpecWords displays.
MaxStart == 2
MaxSpan == 4
\* The canvas is at most MaxWidth columns wide and a decoded buffer has at
\* most MaxSamples samples.
MaxWidth == 3
MaxSamples == 4
\* The canvas is drawn at most MaxDraws times.
MaxDraws == 4

(***************************************************************************)
(* Program constants, in the model's units.                                *)
(***************************************************************************)
\* Math.abs(video.currentTime - currentTime) > 0.5, in half seconds.
SyncThreshold == 1
\* handleAddZoom: "default duration 3s", in half seconds.
DefaultZoomLen == 6
\* handleAddZoom: x: 50, y: 50; handleTimeUpdate: activeZoom.x ?? 50.
DefaultFocus == 50
\* file.size > 1024 * 1024 * 1024
MaxFileSize == 1073741824
\* pickingZoomIndex === null
NullIndex == -1
\* The greatest sample of an audio buffer, 1.0; the least is -1.0.
FullScale == 1

Null == [tag |-> "null"]
Undefined == [tag |-> "undefined"]
\* An array index that was never assigned.
Hole == [tag |-> "hole"]

Min(a, b) == IF a < b THEN a ELSE b
Max(a, b) == IF a > b THEN a ELSE b

(***************************************************************************)
(* JavaScript objects and arrays.                                          *)
(***************************************************************************)
\* The own properties of o; spreading undefined ({...undefined}) adds none.
Nullish(o) == o = Undefined \/ o = Null \/ o = Hole
Props(o) == IF Nullish(o) THEN {} ELSE DOMAIN o

\* { ...a, ...b }
Spread(a, b) ==
    [k \in Props(a) \cup Props(b) |-> IF k \in Props(b) THEN b[k] ELSE a[k]]

\* arr[i] (0-based), undefined outside the array
At(arr, i) == IF i >= 0 /\ i < Len(arr) THEN arr[i + 1] ELSE Undefined

\* arr[i] = { ...arr[i], ...fields }
\* An index past the end leaves holes before the new element.
ArrayUpdate(arr, i, fields) ==
    IF i < Len(arr)
    THEN [arr EXCEPT ![i + 1] = Spread(arr[i + 1], fields)]
    ELSE arr \o [k \in 1..(i - Len(arr)) |-> Hole]
             \o <<Spread(Undefined, fields)>>

\* [...arr]: the iterator yields undefined for a hole.
Copy(arr) == [k \in 1..Len(arr) |-> IF arr[k] = Hole THEN Undefined ELSE arr[k]]

\* A filter that drops the element at i and every element after it.
FilterOutFrom(arr, i) == SubSeq(arr, 1, Min(i, Len(arr)))

\* arr.filter((_, j) => j !== i)
RECURSIVE FilterOut(_, _)
FilterOut(arr, i) ==
    IF arr = <<>> THEN <<>>
    ELSE IF i = 0 THEN Tail(arr)
    ELSE <<Head(arr)>> \o FilterOut(Tail(arr), i - 1)

\* arr.slice(0, n)
Slice(arr, n) == SubSeq(arr, 1, Min(Max(n, 0), Len(arr)))

(***************************************************************************)
(* Text.  A string is a sequence of one-character strings.                 *)
(***************************************************************************)
\* text.split(' '): the empty text splits into one empty word.
RECURSIVE SplitFrom(_, _)
SplitFrom(text, words) ==
    IF text = <<>> THEN words
    ELSE IF Head(text) = " "
         THEN SplitFrom(Tail(text), Append(words, <<>>))
         ELSE SplitFrom(Tail(text),
                        [words EXCEPT ![Len(words)] = Append(@, Head(text))])

Split(text) == SplitFrom(text, << <<>> >>)

(***************************************************************************)
(* Sidebar: the time fields of a cut are edited as strings.                *)
(***************************************************************************)
\* formatTime(seconds): `${mins}:${secs padded}`, both floored.
FormatTime(units) ==
    LET seconds == units \div 2
    IN  [kind |-> "m:ss", mins |-> seconds \div 60, secs |-> seconds % 60]

\* parseTimeString(str): "m:ss" gives m * 60 + s, a plain number is itself.
ParseTimeString(str) ==
    IF str.kind = "m:ss" THEN (str.mins * 60 + str.secs) * 2 ELSE str.units

(***************************************************************************)
(* Playback synchroniser: the searches of handleTimeUpdate.                *)
(***************************************************************************)
\* Comparing a number with an undefined property is false in JavaScript.
HasTimes(o) == {"start", "end"} \subseteq Props(o)

\* The cut test with the end included, and the span test with it excluded.
InCutEndInclusive(c, time) == HasTimes(c) /\ time >= c.start /\ time <= c.end
InSpanEndExclusive(s, time) == HasTimes(s) /\ time >= s.start /\ time < s.end

\* c => time >= c.start && time < c.end
InCut(c, time) == HasTimes(c) /\ time >= c.start /\ time < c.end

\* s => time >= s.start && time <= s.end   (subtitles and zooms)
InSpan(s, time) == HasTimes(s) /\ time >= s.start /\ time <= s.end

\* Array.prototype.find visits every index in order, holes included, and the
\* callbacks above read a property of the element: a hole before the first
\* match raises a TypeError: FindThrows is whether the search raises.
CutMatches(cuts, time) == {i \in 1..Len(cuts) : InCut(cuts[i], time)}
SpanMatches(arr, time) == {i \in 1..Len(arr) : InSpan(arr[i], time)}
Holes(arr) == {i \in 1..Len(arr) : Nullish(arr[i])}
Lowest(S) == CHOOSE i \in S : \A j \in S : i <= j

FindThrows(arr, matches) ==
    /\ Holes(arr) # {}
    /\ (matches = {} \/ Lowest(Holes(arr)) < Lowest(matches))

\* analysis.cuts.find(c => time >= c.start && time < c.end)
FindCut(cuts, time) ==
    IF CutMatches(cuts, time) = {} THEN Undefined
    ELSE cuts[Lowest(CutMatches(cuts, time))]

\* analysis.subtitles.find(s => time >= s.start && time <= s.end)
FindSubtitle(subtitles, time) ==
    IF SpanMatches(subtitles, time) = {} THEN Undefined
    ELSE subtitles[Lowest(SpanMatches(subtitles, time))]

\* analysis.zooms.find(z => time >= z.start && time <= z.end)
FindZoom(zooms, time) ==
    IF SpanMatches(zooms, time) = {} THEN Undefined
    ELSE zooms[Lowest(SpanMatches(zooms, time))]

\* activeSub || null
OrNull(v) == IF v = Undefined THEN Null ELSE v

\* activeZoom.x ?? 50
Coord(z, k) == IF k \in Props(z) THEN z[k] ELSE DefaultFocus

\* The style of an active zoom, and the identity style.
Transition == "transform 0.8s ease-in-out"
ZoomedStyle(z) ==
    [transform |-> "scale(2.5)",
     transformOrigin |-> [x |-> Coord(z, "x"), y |-> Coord(z, "y")],
     transition |-> Transition]
IdentityStyle ==
    [transform |-> "scale(1)",
     transformOrigin |-> [keyword |-> "center center"],
     transition |-> Transition]
\* useState<React.CSSProperties>({})
EmptyStyle == [empty |-> TRUE]

(***************************************************************************)
(* ActiveSubtitleText: the index of the highlighted word.                  *)
(*   elapsed  = Math.max(0, currentTime - start)                           *)
(*   progress = Math.min(1, elapsed / totalDuration)                       *)
(*   activeIndex = Math.floor(progress * words.length)                     *)
(* computed exactly on the rationals.  For totalDuration = 0 and           *)
(* elapsed = 0 JavaScript gives NaN, which no index equals; the model      *)
(* gives -1, which no index equals either.                                 *)
(***************************************************************************)
ActiveIndex(text, start, end, currentTime) ==
    LET n == Len(Split(text))
        totalDuration == end - start
        elapsed == Max(0, currentTime - start)
    IN  IF totalDuration > 0
        THEN IF elapsed >= totalDuration THEN n
             ELSE (elapsed * n) \div totalDuration
        ELSE IF totalDuration = 0
        THEN IF elapsed > 0 THEN n ELSE -1
        ELSE 0 - ((elapsed * n + (0 - totalDuration) - 1) \div (0 - totalDuration))

\* The words rendered as active: i === activeIndex.
ActiveWords(text, start, end, currentTime) ==
    {i \in 0..(Len(Split(text)) - 1) : i = ActiveIndex(text, start, end, currentTime)}

(***************************************************************************)
(* History manager: pushToHistory, undo and redo as functions of the       *)
(* history state [history, historyIndex, analysis].                        *)
(***************************************************************************)
HistoryState(h, i, a) == [history |-> h, historyIndex |-> i, analysis |-> a]

\* Variants of the history functions with one slip each.
\* pushToHistory that keeps the redo branch (no slice):
\* A record that writes the new EDL into the current entry as well.
PushToHistoryInPlace(st, newAnalysis) ==
    LET newHistory == Slice(st.history, st.historyIndex) \o <<newAnalysis, newAnalysis>>
    IN  HistoryState(newHistory, Len(newHistory) - 1, newAnalysis)

PushToHistoryNoTruncate(st, newAnalysis) ==
    LET newHistory == Append(st.history, newAnalysis)
    IN  HistoryState(newHistory, Len(newHistory) - 1, newAnalysis)
\* pushToHistory that slices one entry short (slice(0, historyIndex)):
PushToHistoryDropsCurrent(st, newAnalysis) ==
    LET newHistory == Append(Slice(st.history, st.historyIndex), newAnalysis)
    IN  HistoryState(newHistory, Len(newHistory) - 1, newAnalysis)
\* undo that moves the index and leaves the current analysis:
UndoStateStale(st) ==
    IF st.historyIndex > 0
    THEN HistoryState(st.history, st.historyIndex - 1, st.analysis)
    ELSE st
\* undo that pops the undone entries off the history:
UndoStateTruncates(st) ==
    IF st.historyIndex > 0
    THEN HistoryState(Slice(st.history, st.historyIndex), st.historyIndex - 1,
                      st.history[st.historyIndex])
    ELSE st
\* redo that reads the entry it leaves (history[historyIndex]):
RedoStateStale(st) ==
    IF st.historyIndex < Len(st.history) - 1
    THEN HistoryState(st.history, st.historyIndex + 1, st.history[st.historyIndex + 1])
    ELSE st
\* redo whose guard lets the cursor pass the last entry
\* (historyIndex < history.length):
RedoStatePastEnd(st) ==
    IF st.historyIndex < Len(st.history) - 1
    THEN HistoryState(st.history, st.historyIndex + 1, st.history[st.historyIndex + 2])
    ELSE IF st.historyIndex < Len(st.history)
    THEN HistoryState(st.history, st.historyIndex + 1, st.analysis)
    ELSE st
\* a load that forgets setHistoryIndex(0):
LoadedHistoryNoIndex(parsed) == HistoryState(<<parsed>>, -1, parsed)

\* pushToHistory(newAnalysis)
PushToHistory(st, newAnalysis) ==
    LET newHistory == Append(Slice(st.history, st.historyIndex + 1), newAnalysis)
    IN  HistoryState(newHistory, Len(newHistory) - 1, newAnalysis)

\* undo(): if (historyIndex > 0)
CanUndo(st) == st.historyIndex > 0
UndoState(st) ==
    IF CanUndo(st)
    THEN HistoryState(st.history, st.historyIndex - 1, st.history[st.historyIndex])
    ELSE st

\* redo(): if (historyIndex < history.length - 1)
CanRedo(st) == st.historyIndex < Len(st.history) - 1
RedoState(st) ==
    IF CanRedo(st)
    THEN HistoryState(st.history, st.historyIndex + 1, st.history[st.historyIndex + 2])
    ELSE st

\* The load effect: setAnalysis(parsed); setHistory([parsed]); setHistoryIndex(0)
LoadedHistory(parsed) == HistoryState(<<parsed>>, 0, parsed)

\* handleAnalyze: setAnalysis(result); setHistory([result]); setHistoryIndex(0)
AnalyzedHistory(result) == HistoryState(<<result>>, 0, result)

(***************************************************************************)
(* Persisted state.  JSON.stringify writes a hole or an undefined element  *)
(* of an array as null; JSON.parse gives the written value back.           *)
(***************************************************************************)
NoItem == [tag |-> "absent"]

Stringify(edl) ==
    [k \in DOMAIN edl |->
        [i \in 1..Len(edl[k]) |->
            IF Nullish(edl[k][i]) THEN Null ELSE edl[k][i]]]

JsonParse(item) == item

\* if (!parsed.highlights) parsed.highlights = [];
WithHighlights(parsed) ==
    IF "highlights" \in DOMAIN parsed THEN parsed
    ELSE [k \in DOMAIN parsed \cup {"highlights"} |->
             IF k = "highlights" THEN <<>> ELSE parsed[k]]

(***************************************************************************)
(* The inputs the model draws from.                                        *)
(***************************************************************************)
Files == {"A", "B", "BIG"}
FileSize(f) == IF f = "BIG" THEN MaxFileSize + 1
               ELSE IF f = "A" THEN MaxFileSize ELSE 1

Text(n) == IF n = 0 THEN <<>>
           ELSE IF n = 1 THEN <<"a">>
           ELSE IF n = 2 THEN <<"h", "i", " ", "y", "o">>
           ELSE <<"a", " ", "b", " ", "c">>

\* Three results of the analysis service.
Result0 ==
    [cuts      |-> <<>>,
     chapters  |-> <<>>,
     zooms     |-> <<>>,
     subtitles |-> << [start |-> 0, end |-> 2, text |-> Text(1)] >>,
     highlights |-> <<>>]
Result1 ==
    [cuts      |-> << [start |-> 0, end |-> 4, reason |-> "silence"] >>,
     chapters  |-> << [timestamp |-> 0, title |-> "Intro"] >>,
     zooms     |-> << [start |-> 4, end |-> 8, target |-> "top-left",
                       description |-> "face"] >>,
     subtitles |-> << [start |-> 4, end |-> 10, text |-> Text(2)] >>,
     highlights |-> <<>>]
Result2 ==
    [cuts      |-> << [start |-> 4, end |-> 6, reason |-> "filler"],
                      [start |-> 5, end |-> 8, reason |-> "silence"] >>,
     chapters  |-> <<>>,
     zooms     |-> << [start |-> 0, end |-> 4, target |-> "center",
                       description |-> "wide", x |-> 20, y |-> 80] >>,
     subtitles |-> << [start |-> 0, end |-> 3, text |-> Text(3)],
                      [start |-> 2, end |-> 9, text |-> Text(1)] >>,
     highlights |-> <<>>]
Results == {Result0, Result1, Result2}

(***************************************************************************)
(* State.                                                                  *)
(***************************************************************************)
VARIABLES
    \* App (useState)
    videoFile, videoUrl, duration, currentTime,
    analysis, history, historyIndex,
    pickingZoomIndex, isAnalyzing, error,
    \* the last history operations (at most three), oldest first: "record",
    \* "undo", "redo", "undo-noop" and "redo-noop" for a call that found
    \* nothing to undo or redo, and "cancel" for an Escape that left the
    \* picker; emptied when the history is replaced
    trail,
    \* the environment of App
    lsAnalysis,     \* localStorage 'bina_ai_analysis'
    lsVideoId,      \* localStorage 'bina_ai_video_id'
    db,             \* the blob store: the video ids it holds
    saving,         \* saveVideoToDB calls in flight
    loading,        \* the getVideoFromDB call in flight
    analyzeCall,    \* the analyzeVideoWithGemini call in flight
    crashed,        \* an effect raised: React unmounted the tree
    \* VideoPlayer
    videoTime,      \* videoRef.current.currentTime
    metaPending,    \* loadedmetadata has not fired for the current source
    isPlaying, currentSubtitle, zoomStyle, zoomPoint,
    skipNotification,
    timers,         \* pending setTimeout(() => setSkipNotification(null))
    pending,        \* effects whose dependencies changed in the last render
    \* Waveform
    audioBuffer,    \* the decoded AudioBuffer on display, or Null
    isDecoding,
    loads,          \* the loadAudio calls in flight
    offsetWidth,    \* the laid out width of the canvas
    peaks,          \* the (min, max) pairs of the last draw, one per column
    drawn           \* the draws so far: their samples, width and pairs

appVars == <<videoFile, videoUrl, duration, currentTime, analysis, history,
             historyIndex, trail, pickingZoomIndex, isAnalyzing, error>>
histVars == <<analysis, history, historyIndex, trail>>
envVars == <<lsAnalysis, lsVideoId, db, saving, loading, analyzeCall>>
playerVars == <<videoTime, metaPending, isPlaying, currentSubtitle, zoomStyle,
                zoomPoint, skipNotification, timers>>
waveVars == <<audioBuffer, isDecoding, loads, offsetWidth, peaks, drawn>>
vars == <<appVars, envVars, crashed, playerVars, pending, waveVars>>

\* The history state the history functions work on.
Hist == HistoryState(history, historyIndex, analysis)

\* The state of a freshly mounted App and VideoPlayer.
Mounted ==
    /\ videoFile = "null" /\ videoUrl = "null"
    /\ duration = 0 /\ currentTime = 0
    /\ analysis = Null /\ history = <<>> /\ historyIndex = -1
    /\ trail = <<>>
    /\ pickingZoomIndex = NullIndex
    /\ isAnalyzing = FALSE /\ error = "null"
    /\ crashed = FALSE
    /\ videoTime = 0 /\ metaPending = FALSE /\ isPlaying = FALSE
    /\ currentSubtitle = Null /\ zoomStyle = EmptyStyle /\ zoomPoint = Null
    /\ skipNotification = "null" /\ timers = 0
    /\ pending = {}
    /\ audioBuffer = Null /\ isDecoding = FALSE /\ loads = {}
    /\ peaks = <<>> /\ drawn = <<>>

\* The first visit: nothing is persisted.
Init ==
    /\ Mounted
    /\ lsAnalysis = NoItem /\ lsVideoId = "null"
    /\ db = {} /\ saving = {} /\ loading = "null" /\ analyzeCall = "null"
    /\ offsetWidth = MaxWidth

(***************************************************************************)
(* Rendering and effects.                                                  *)
(***************************************************************************)
\* videoRef.current: the <video> element exists once there is a videoUrl.
HasVideo == videoUrl # "null"

\* Every handler below runs on a mounted tree whose effects have run.
Ready == ~crashed /\ pending = {}

\* VideoPlayer, effect [currentTime]: rewrite the player position when it is
\* more than 0.5 s away from the controller's currentTime.
SyncedTime(vt, ct) ==
    IF (IF vt > ct THEN vt - ct ELSE ct - vt) > SyncThreshold
    THEN Max(0, Min(ct, MaxTime)) ELSE vt

\* VideoPlayer, effect [analysis]: the zoom point of the active zoom.
EffectZoomPoint(zooms, time) ==
    LET activeZoom == FindZoom(zooms, time)
    IN  IF activeZoom # Undefined /\ {"x", "y"} \subseteq Props(activeZoom)
        THEN [x |-> activeZoom.x, y |-> activeZoom.y] ELSE Null

\* Timeline renders analysis.zooms.map(zoom => ... zoom.start ...): map skips
\* holes and raises a TypeError on an undefined or null element.  Timeline
\* and Sidebar call map or read length on cuts, zooms, subtitles and
\* chapters, which raises a TypeError when the collection is missing.
RenderThrows(a) ==
    /\ a # Null
    /\ \/ {"cuts", "zooms", "subtitles", "chapters"} \ DOMAIN a # {}
       \/ \E i \in 1..Len(a.zooms) : a.zooms[i] = Undefined \/ a.zooms[i] = Null

\* VideoPlayer, effect [analysis]: whether one of its two searches raises.
EffectThrows(a, time) ==
    \/ FindThrows(a.subtitles, SpanMatches(a.subtitles, time))
    \/ FindThrows(a.zooms, SpanMatches(a.zooms, time))

\* The render of the new state and the effects of VideoPlayer that follow it,
\* in their order: [currentTime], then [analysis].
RunEffects ==
    /\ ~crashed /\ pending # {}
    /\ pending' = {}
    /\ LET time == IF "time" \in pending /\ HasVideo
                   THEN SyncedTime(videoTime, currentTime) ELSE videoTime
           runs == "analysis" \in pending /\ analysis # Null /\ HasVideo
           throws == RenderThrows(analysis) \/ (runs /\ EffectThrows(analysis, time))
       IN  /\ videoTime' = time
           /\ crashed' = throws
           /\ IF runs /\ ~throws
              THEN /\ currentSubtitle' = OrNull(FindSubtitle(analysis.subtitles, time))
                   /\ zoomPoint' = EffectZoomPoint(analysis.zooms, time)
              ELSE UNCHANGED <<currentSubtitle, zoomPoint>>
    /\ UNCHANGED <<appVars, envVars, metaPending, isPlaying, zoomStyle,
                   skipNotification, timers, waveVars>>

(***************************************************************************)
(* Waveform: loading the audio of the source and drawing it.               *)
(***************************************************************************)
\* A loadAudio() call in flight: its source, the await it stands at
\* ("fetch", "body" for response.arrayBuffer(), "decode" for
\* decodeAudioData) and whether its controller was aborted.
Load(src, stage, aborted) == [src |-> src, stage |-> stage, aborted |-> aborted]

\* abortController.current.abort()
Aborted(ls) == {Load(l.src, l.stage, TRUE) : l \in ls}

\* Effect [videoUrl] for a new source, taken with the step that sets
\* videoUrl: the cleanup of the last run, then loadAudio() up to its first
\* await.
SourceChanged(url) ==
    /\ loads' = Aborted(loads) \cup {Load(url, "fetch", FALSE)}
    /\ isDecoding' = TRUE
    /\ UNCHANGED <<audioBuffer, offsetWidth, peaks, drawn>>

\* Math.ceil(a / b), a >= 0 and b > 0
CeilDiv(a, b) == (a + b - 1) \div b

\* let min = 1.0; let max = -1.0
ColumnStart == [min |-> FullScale, max |-> 0 - FullScale]

\* The loop over j of one column, from its j-th sample on: data[from + j]
\* is undefined past the end of the data, and undefined is neither less
\* nor greater than a number.
RECURSIVE Column(_, _, _, _, _)
Column(data, from, j, step, acc) ==
    IF j >= step THEN acc
    ELSE Column(data, from, j + 1, step,
                IF from + j >= Len(data) THEN acc
                ELSE LET datum == data[from + j + 1]
                     IN  [min |-> IF datum < acc.min THEN datum ELSE acc.min,
                          max |-> IF datum > acc.max THEN datum ELSE acc.max])

\* A draw whose columns start from the pairs of the draw before.
PeaksOverPrevious(prev, data, width) ==
    LET step == CeilDiv(Len(data), width)
    IN  [i \in 1..width |->
            Column(data, (i - 1) * step, 0, step,
                   IF i <= Len(prev) THEN prev[i] ELSE ColumnStart)]

\* draw(): the (min, max) pair of every column i < width, with
\* step = Math.ceil(data.length / width); prev is what the canvas showed.
Peaks(prev, data, width) ==
    LET step == CeilDiv(Len(data), width)
    IN  [i \in 1..width |-> Column(data, (i - 1) * step, 0, step, ColumnStart)]

\* canvas.width = canvas.offsetWidth; draw()
Draw(data, width) ==
    /\ Len(drawn) < MaxDraws
    /\ peaks' = Peaks(peaks, data, width)
    /\ drawn' = Append(drawn, [data |-> data, width |-> width, peaks |-> peaks'])

\* What an App or VideoPlayer step leaves alone in a Waveform step.
WaveFrame == UNCHANGED <<appVars, envVars, crashed, playerVars, pending>>

\* await fetch(videoUrl, { signal }) settles: it rejects when the signal
\* was aborted or the fetch failed, and the catch and finally blocks run.
FetchDone(l, ok) ==
    /\ Ready /\ l \in loads /\ l.stage = "fetch"
    /\ IF ok /\ ~l.aborted
       THEN /\ loads' = (loads \ {l}) \cup {Load(l.src, "body", FALSE)}
            /\ UNCHANGED isDecoding
       ELSE /\ loads' = loads \ {l}
            /\ isDecoding' = FALSE
    /\ UNCHANGED <<audioBuffer, offsetWidth, peaks, drawn>>
    /\ WaveFrame

\* await response.arrayBuffer() settles: it rejects when the signal was
\* aborted or the body could not be read.
BodyDone(l, ok) ==
    /\ Ready /\ l \in loads /\ l.stage = "body"
    /\ IF ok /\ ~l.aborted
       THEN /\ loads' = (loads \ {l}) \cup {Load(l.src, "decode", FALSE)}
            /\ UNCHANGED isDecoding
       ELSE /\ loads' = loads \ {l}
            /\ isDecoding' = FALSE
    /\ UNCHANGED <<audioBuffer, offsetWidth, peaks, drawn>>
    /\ WaveFrame

\* The result of a decodeAudioData call that rejected.
Failed == [tag |-> "rejected"]

\* An AudioBuffer: audioBuffer.getChannelData(0)
AudioBuffer(data) == [data |-> data]
\* The decoded audio of the two files.
Samples(file) == AudioBuffer(IF file = "A" THEN <<1, -1, 0, 1>> ELSE <<0, -1>>)
\* The buffers of at most MaxSamples samples.
Buffers ==
    {AudioBuffer(data) :
        data \in UNION {[1..n -> (0 - FullScale)..FullScale] : n \in 0..MaxSamples}}

\* await audioContext.decodeAudioData(arrayBuffer) settles, the signal
\* having no part in it: setAudioBuffer(decodedBuffer), and the effect on
\* [audioBuffer, analysis, duration] draws it; or the catch block logs.
DecodeDone(l, result) ==
    /\ Ready /\ l \in loads /\ l.stage = "decode"
    /\ loads' = loads \ {l}
    /\ isDecoding' = FALSE
    /\ IF result # Failed
       THEN /\ audioBuffer' = result
            /\ Draw(result.data, offsetWidth)
       ELSE UNCHANGED <<audioBuffer, peaks, drawn>>
    /\ UNCHANGED offsetWidth
    /\ WaveFrame

\* The ResizeObserver of the draw effect: the canvas is now laid out w wide.
Resize(w) ==
    /\ Ready /\ HasVideo /\ audioBuffer # Null
    /\ w # offsetWidth
    /\ offsetWidth' = w
    /\ Draw(audioBuffer.data, w)
    /\ UNCHANGED <<audioBuffer, isDecoding, loads>>
    /\ WaveFrame

\* The draw effect runs again for the buffer on display.
Redraw ==
    /\ Ready /\ HasVideo /\ audioBuffer # Null
    /\ Draw(audioBuffer.data, offsetWidth)
    /\ UNCHANGED <<audioBuffer, isDecoding, loads, offsetWidth>>
    /\ WaveFrame

(***************************************************************************)
(* App: loading, upload and analysis.                                      *)
(***************************************************************************)
\* The page is (re)loaded: every component mounts afresh, calls in flight
\* are gone, and the mount effect reads the persisted state.
Reload ==
    /\ videoFile' = "null" /\ videoUrl' = "null"
    /\ duration' = 0 /\ currentTime' = 0
    /\ pickingZoomIndex' = NullIndex
    /\ isAnalyzing' = FALSE /\ error' = "null"
    /\ crashed' = FALSE
    /\ videoTime' = 0 /\ metaPending' = FALSE /\ isPlaying' = FALSE
    /\ currentSubtitle' = Null /\ zoomStyle' = EmptyStyle /\ zoomPoint' = Null
    /\ skipNotification' = "null" /\ timers' = 0
    /\ saving' = {} /\ analyzeCall' = "null"
    /\ trail' = <<>>
    /\ IF lsAnalysis # NoItem
       THEN LET st == LoadedHistory(WithHighlights(JsonParse(lsAnalysis)))
            IN  /\ analysis' = st.analysis
                /\ history' = st.history
                /\ historyIndex' = st.historyIndex
                /\ pending' = {"analysis"}
       ELSE /\ analysis' = Null /\ history' = <<>> /\ historyIndex' = -1
            /\ pending' = {}
    /\ loading' = lsVideoId
    /\ audioBuffer' = Null /\ isDecoding' = FALSE /\ loads' = {}
    /\ peaks' = <<>> /\ drawn' = <<>>
    /\ UNCHANGED <<lsAnalysis, lsVideoId, db, offsetWidth>>

\* getVideoFromDB(savedVideoId).then(file => ...)
LoadVideoDone ==
    /\ pending = {}
    /\ loading # "null"
    /\ loading' = "null"
    /\ IF loading \in db /\ ~crashed
       THEN /\ videoFile' = loading /\ videoUrl' = loading
            /\ videoTime' = 0 /\ metaPending' = TRUE
            /\ SourceChanged(loading)
       ELSE UNCHANGED <<videoFile, videoUrl, videoTime, metaPending, waveVars>>
    /\ UNCHANGED <<duration, currentTime, histVars, pickingZoomIndex,
                   isAnalyzing, error, lsAnalysis, lsVideoId, db, saving,
                   analyzeCall, crashed, isPlaying, currentSubtitle, zoomStyle,
                   zoomPoint, skipNotification, timers, pending>>

\* onLoadedMetadata={() => onDurationChange(videoRef.current?.duration || 0)}
HandleLoadedMetadata ==
    /\ Ready /\ HasVideo /\ metaPending
    /\ metaPending' = FALSE
    /\ duration' = MaxTime
    /\ UNCHANGED <<videoFile, videoUrl, currentTime, histVars, pickingZoomIndex,
                   isAnalyzing, error, envVars, crashed, waveVars, videoTime, isPlaying,
                   currentSubtitle, zoomStyle, zoomPoint, skipNotification,
                   timers, pending>>

\* A size check that lets every file through.
TooLargeNever(file) == FALSE
\* if (file.size > 1024 * 1024 * 1024)
TooLarge(file) == FileSize(file) > MaxFileSize

\* handleFileUpload, up to its await.
HandleFileUpload(file) ==
    /\ Ready
    /\ IF TooLarge(file)
       THEN /\ error' = "File size exceeds 1GB limit."
            /\ UNCHANGED <<videoFile, videoUrl, histVars, saving, videoTime,
                           metaPending, pending, waveVars>>
       ELSE /\ error' = "null"
            /\ videoFile' = file /\ videoUrl' = file
            /\ analysis' = Null /\ history' = <<>> /\ historyIndex' = -1
            /\ trail' = <<>>
            /\ saving' = saving \cup {file}
            /\ videoTime' = 0 /\ metaPending' = TRUE
            /\ pending' = IF analysis # Null THEN {"analysis"} ELSE {}
            /\ SourceChanged(file)
    /\ UNCHANGED <<duration, currentTime, pickingZoomIndex, isAnalyzing,
                   lsAnalysis, lsVideoId, db, loading, analyzeCall, crashed,
                   isPlaying, currentSubtitle, zoomStyle, zoomPoint,
                   skipNotification, timers>>

\* handleFileUpload, after await saveVideoToDB(videoId, file).
SaveVideoDone(file, ok) ==
    /\ file \in saving
    /\ saving' = saving \ {file}
    /\ db' = db \cup {file}
    /\ lsVideoId' = IF ok THEN file ELSE lsVideoId
    /\ UNCHANGED <<appVars, lsAnalysis, loading, analyzeCall, crashed, waveVars,
                   playerVars, pending>>

\* handleAnalyze, up to its await.  The button is rendered while there is a
\* video and no analysis, and is disabled while analyzing.
HandleAnalyze ==
    /\ Ready
    /\ videoFile # "null" /\ analysis = Null /\ ~isAnalyzing
    /\ isAnalyzing' = TRUE
    /\ error' = "null"
    /\ analyzeCall' = videoFile
    /\ UNCHANGED <<videoFile, videoUrl, duration, currentTime, histVars,
                   pickingZoomIndex, lsAnalysis, lsVideoId, db, saving, loading,
                   crashed, waveVars, playerVars, pending>>

\* handleAnalyze, the call returned result.  A setItem that raises is caught
\* by the handler's catch, after the state was set.
AnalyzeResolved(result, ok) ==
    /\ pending = {}
    /\ analyzeCall # "null"
    /\ analyzeCall' = "null"
    /\ lsAnalysis' = IF ok THEN Stringify(result) ELSE lsAnalysis
    /\ IF crashed
       THEN UNCHANGED <<histVars, error, isAnalyzing, pending>>
       ELSE /\ analysis' = AnalyzedHistory(result).analysis
            /\ history' = AnalyzedHistory(result).history
            /\ historyIndex' = AnalyzedHistory(result).historyIndex
            /\ trail' = <<>>
            /\ error' = IF ok THEN error ELSE "QuotaExceededError"
            /\ isAnalyzing' = FALSE
            /\ pending' = {"analysis"}
    /\ UNCHANGED <<videoFile, videoUrl, duration, currentTime,
                   pickingZoomIndex, lsVideoId, db, saving, loading, crashed, waveVars,
                   playerVars>>

\* A failure path without the finally block: the flag stays set.
AnalyzeRejectedStaysBusy ==
    /\ pending = {}
    /\ analyzeCall # "null"
    /\ analyzeCall' = "null"
    /\ IF crashed
       THEN UNCHANGED error
       ELSE error' = "Failed to analyze video. Check API Key or file format."
    /\ UNCHANGED <<videoFile, videoUrl, duration, currentTime, histVars,
                   pickingZoomIndex, isAnalyzing, lsAnalysis, lsVideoId, db,
                   saving, loading, crashed, waveVars, playerVars, pending>>

\* handleAnalyze, the call failed.
AnalyzeRejected ==
    /\ pending = {}
    /\ analyzeCall # "null"
    /\ analyzeCall' = "null"
    /\ IF crashed
       THEN UNCHANGED <<error, isAnalyzing>>
       ELSE /\ error' = "Failed to analyze video. Check API Key or file format."
            /\ isAnalyzing' = FALSE
    /\ UNCHANGED <<videoFile, videoUrl, duration, currentTime, histVars,
                   pickingZoomIndex, lsAnalysis, lsVideoId, db, saving, loading,
                   crashed, waveVars, playerVars, pending>>

(***************************************************************************)
(* App: the history manager.                                               *)
(***************************************************************************)
\* The trail with one more operation, cut to the last three.
Logged(op) ==
    LET t == Append(trail, op)
    IN  IF Len(t) > 3 THEN SubSeq(t, Len(t) - 2, Len(t)) ELSE t

\* pushToHistory(newAnalysis); ok is whether localStorage.setItem succeeds
\* (it raises when the quota is exceeded, after the state was set).
Record(newAnalysis, ok) ==
    /\ historyIndex + 1 < MaxHist
    /\ trail' = Logged("record")
    /\ LET st == PushToHistory(Hist, newAnalysis)
       IN  /\ history' = st.history
           /\ historyIndex' = st.historyIndex
           /\ analysis' = st.analysis
    /\ lsAnalysis' = IF ok THEN Stringify(newAnalysis) ELSE lsAnalysis
    /\ pending' = {"analysis"}

\* undo()
Undo(ok) ==
    LET st == UndoState(Hist)
    IN  /\ history' = st.history
        /\ historyIndex' = st.historyIndex
        /\ analysis' = st.analysis
        /\ trail' = Logged(IF CanUndo(Hist) THEN "undo" ELSE "undo-noop")
        /\ lsAnalysis' = IF CanUndo(Hist) /\ ok THEN Stringify(st.analysis)
                         ELSE lsAnalysis
        /\ pending' = IF CanUndo(Hist) THEN {"analysis"} ELSE {}

\* redo()
Redo(ok) ==
    LET st == RedoState(Hist)
    IN  /\ history' = st.history
        /\ historyIndex' = st.historyIndex
        /\ analysis' = st.analysis
        /\ trail' = Logged(IF CanRedo(Hist) THEN "redo" ELSE "redo-noop")
        /\ lsAnalysis' = IF CanRedo(Hist) /\ ok THEN Stringify(st.analysis)
                         ELSE lsAnalysis
        /\ pending' = IF CanRedo(Hist) THEN {"analysis"} ELSE {}

\* What a handler that only records leaves alone.
RecordFrame ==
    UNCHANGED <<videoFile, videoUrl, duration, currentTime, isAnalyzing, error,
                lsVideoId, db, saving, loading, analyzeCall, crashed, waveVars, playerVars>>

\* handleKeyDown: Escape cancels picking; Ctrl/Cmd+Z undoes, with Shift it
\* redoes; Ctrl/Cmd+Y redoes.
Keys == {"Escape", "Ctrl+Z", "Ctrl+Shift+Z", "Ctrl+Y"}
\* if (pickingZoomIndex !== null && e.key === 'Escape')
CancelsPicking(picking, key) == picking # NullIndex /\ key = "Escape"

\* A key handler whose Escape also undoes the last edit.
HandleKeyDownEscapeUndoes(key, ok) ==
    /\ Ready
    /\ IF CancelsPicking(pickingZoomIndex, key)
       THEN /\ pickingZoomIndex' = NullIndex
            /\ Undo(ok)
       ELSE /\ UNCHANGED pickingZoomIndex
            /\ CASE key = "Ctrl+Z" -> Undo(ok)
                 [] key \in {"Ctrl+Shift+Z", "Ctrl+Y"} -> Redo(ok)
                 [] OTHER -> UNCHANGED <<histVars, lsAnalysis, pending>>
    /\ RecordFrame

HandleKeyDown(key, ok) ==
    /\ Ready
    /\ IF CancelsPicking(pickingZoomIndex, key)
       THEN /\ pickingZoomIndex' = NullIndex
            /\ trail' = Logged("cancel")
            /\ UNCHANGED <<analysis, history, historyIndex, lsAnalysis, pending>>
       ELSE /\ UNCHANGED pickingZoomIndex
            /\ CASE key = "Ctrl+Z" -> Undo(ok)
                 [] key \in {"Ctrl+Shift+Z", "Ctrl+Y"} -> Redo(ok)
                 [] OTHER -> UNCHANGED <<histVars, lsAnalysis, pending>>
    /\ RecordFrame

(***************************************************************************)
(* App: the edit handlers.                                                 *)
(***************************************************************************)
Indices(arr) == 0..(Len(arr) - 1)

\* handleSubtitleUpdate(index, newText)
HandleSubtitleUpdate(index, newText, ok) ==
    /\ Ready /\ analysis # Null
    /\ index \in Indices(analysis.subtitles)
    /\ LET updatedSubtitles ==
               ArrayUpdate(Copy(analysis.subtitles), index, [text |-> newText])
       IN  Record(Spread(analysis, [subtitles |-> updatedSubtitles]), ok)
    /\ UNCHANGED pickingZoomIndex
    /\ RecordFrame

\* handleSubtitleDelete(index)
HandleSubtitleDelete(index, ok) ==
    /\ Ready /\ analysis # Null
    /\ index \in Indices(analysis.subtitles)
    /\ Record(Spread(analysis,
                     [subtitles |-> FilterOut(analysis.subtitles, index)]), ok)
    /\ UNCHANGED pickingZoomIndex
    /\ RecordFrame

\* handleCutUpdate(index, updatedFields)
HandleCutUpdate(index, updatedFields, ok) ==
    /\ Ready /\ analysis # Null
    /\ index \in Indices(analysis.cuts)
    /\ LET updatedCuts == ArrayUpdate(Copy(analysis.cuts), index, updatedFields)
       IN  Record(Spread(analysis, [cuts |-> updatedCuts]), ok)
    /\ UNCHANGED pickingZoomIndex
    /\ RecordFrame

\* CutItem.handleSave: the fields are parsed from the edited strings; a field
\* the user left alone holds formatTime of the cut's value.
CutItemSave(index, startStr, endStr, reason, ok) ==
    HandleCutUpdate(index,
                    [start |-> ParseTimeString(startStr),
                     end |-> ParseTimeString(endStr),
                     reason |-> reason], ok)

\* handleCutDelete(index)
HandleCutDelete(index, ok) ==
    /\ Ready /\ analysis # Null
    /\ index \in Indices(analysis.cuts)
    /\ Record(Spread(analysis, [cuts |-> FilterOut(analysis.cuts, index)]), ok)
    /\ UNCHANGED pickingZoomIndex
    /\ RecordFrame

\* A promotion that leaves the cut among the cuts.
PromotedKeepsCut(a, index) ==
    LET cut == At(a.cuts, index)
        newHighlight == [start |-> cut.start, end |-> cut.end,
                         label |-> "Highlighted Segment"]
    IN  Spread(a, [highlights |-> Copy(a.highlights) \o <<newHighlight>>])

\* handlePromoteCutToHighlight(index)
Promoted(a, index) ==
    LET cut == At(a.cuts, index)
        updatedCuts == FilterOut(a.cuts, index)
        newHighlight == [start |-> cut.start, end |-> cut.end,
                         label |-> "Highlighted Segment"]
        updatedHighlights ==
            (IF "highlights" \in DOMAIN a THEN Copy(a.highlights) ELSE <<>>)
                \o <<newHighlight>>
    IN  Spread(a, [cuts |-> updatedCuts, highlights |-> updatedHighlights])

HandlePromoteCutToHighlight(index, ok) ==
    /\ Ready /\ analysis # Null
    /\ index \in Indices(analysis.cuts)
    /\ Record(Promoted(analysis, index), ok)
    /\ UNCHANGED pickingZoomIndex
    /\ RecordFrame

\* handleHighlightUpdate(index, updatedFields)
HandleHighlightUpdate(index, updatedFields, ok) ==
    /\ Ready /\ analysis # Null
    /\ index \in Indices(analysis.highlights)
    /\ LET updatedHighlights ==
               ArrayUpdate(Copy(analysis.highlights), index, updatedFields)
       IN  Record(Spread(analysis, [highlights |-> updatedHighlights]), ok)
    /\ UNCHANGED pickingZoomIndex
    /\ RecordFrame

\* handleHighlightDelete(index)
HandleHighlightDelete(index, ok) ==
    /\ Ready /\ analysis # Null
    /\ index \in Indices(analysis.highlights)
    /\ Record(Spread(analysis,
                     [highlights |-> FilterOut(analysis.highlights, index)]), ok)
    /\ UNCHANGED pickingZoomIndex
    /\ RecordFrame

(***************************************************************************)
(* App: zooms and the focus-point picker.                                  *)
(***************************************************************************)
\* (a, b) => a.start - b.start is NaN when a start is missing; sort takes a
\* NaN for 0 (equal).
StartsAfter(a, b) == "start" \in Props(a) /\ "start" \in Props(b) /\ a.start > b.start

\* The 0-based place a stable insertion sort gives e in the sorted arr.
RECURSIVE InsertPos(_, _)
InsertPos(arr, e) ==
    IF arr = <<>> THEN 0
    ELSE IF StartsAfter(arr[Len(arr)], e)
         THEN InsertPos(SubSeq(arr, 1, Len(arr) - 1), e)
         ELSE Len(arr)

InsertAt(arr, pos, e) == SubSeq(arr, 1, pos) \o <<e>> \o SubSeq(arr, pos + 1, Len(arr))

RECURSIVE InsertionSort(_)
InsertionSort(arr) ==
    IF arr = <<>> THEN <<>>
    ELSE LET front == InsertionSort(SubSeq(arr, 1, Len(arr) - 1))
             e == arr[Len(arr)]
         IN  InsertAt(front, InsertPos(front, e), e)

IsDefined(z) == z # Undefined
\* arr.sort((a, b) => a.start - b.start): undefined elements go last.
SortByStart(arr) ==
    InsertionSort(SelectSeq(arr, IsDefined))
        \o [k \in 1..(Len(arr) - Len(SelectSeq(arr, IsDefined))) |-> Undefined]

\* handleAddZoom: the new zoom, the updated zooms and the new zoom's index.
NewZoom(start, dur) ==
    [start |-> start, end |-> Min(dur, start + DefaultZoomLen),
     target |-> "center", description |-> "Manual Focus",
     x |-> DefaultFocus, y |-> DefaultFocus]
AddedZooms(zooms, newZoom) == SortByStart(Copy(zooms) \o <<newZoom>>)
AddedIndex(zooms, newZoom) ==
    InsertPos(InsertionSort(SelectSeq(Copy(zooms), IsDefined)), newZoom)

HandleAddZoom(ok) ==
    /\ Ready /\ analysis # Null
    /\ Len(analysis.zooms) < MaxZooms
    /\ LET newZoom == NewZoom(currentTime, duration)
       IN  /\ Record(Spread(analysis,
                            [zooms |-> AddedZooms(analysis.zooms, newZoom)]), ok)
           /\ pickingZoomIndex' = IF ok THEN AddedIndex(analysis.zooms, newZoom)
                                  ELSE pickingZoomIndex
    /\ RecordFrame

\* An update that puts the updated fields in place of the zoom.
ZoomUpdatedReplaces(a, index, updatedFields) ==
    Spread(a, [zooms |-> [Copy(a.zooms) EXCEPT ![index + 1] = updatedFields]])

\* handleZoomUpdate(index, updatedFields)
ZoomUpdated(a, index, updatedFields) ==
    Spread(a, [zooms |-> ArrayUpdate(Copy(a.zooms), index, updatedFields)])

HandleZoomUpdate(index, updatedFields, ok) ==
    /\ Ready /\ analysis # Null
    /\ index \in Indices(analysis.zooms)
    /\ Record(ZoomUpdated(analysis, index, updatedFields), ok)
    /\ UNCHANGED pickingZoomIndex
    /\ RecordFrame

\* Sidebar, the Set Focus button of zoom i:
\*   onSeek(zoom.start); setPickingZoomIndex(isPicking ? null : i)
SetFocus(i) ==
    /\ Ready /\ analysis # Null
    /\ i \in Indices(analysis.zooms)
    /\ "start" \in Props(analysis.zooms[i + 1])
    /\ currentTime' = analysis.zooms[i + 1].start
    /\ pending' = IF currentTime' # currentTime THEN {"time"} ELSE {}
    /\ pickingZoomIndex' = IF pickingZoomIndex = i THEN NullIndex ELSE i
    /\ UNCHANGED <<videoFile, videoUrl, duration, histVars, isAnalyzing, error,
                   envVars, crashed, waveVars, playerVars>>

\* Timeline.handleSeek: if (duration === 0) return; onSeek(percentage * duration),
\* with onSeek = setCurrentTime.
Seek(t) ==
    /\ Ready
    /\ duration # 0 /\ t \in 0..duration
    /\ currentTime' = t
    /\ pending' = IF t # currentTime THEN {"time"} ELSE {}
    /\ UNCHANGED <<videoFile, videoUrl, duration, histVars, pickingZoomIndex,
                   isAnalyzing, error, envVars, crashed, waveVars, playerVars>>

\* App.handleVideoClick(x, y)
AppHandleVideoClick(x, y, ok) ==
    IF pickingZoomIndex # NullIndex /\ analysis # Null
    THEN /\ Record(ZoomUpdated(analysis, pickingZoomIndex, [x |-> x, y |-> y]), ok)
         /\ pickingZoomIndex' = IF ok THEN NullIndex ELSE pickingZoomIndex
    ELSE UNCHANGED <<histVars, lsAnalysis, pending, pickingZoomIndex>>

\* VideoPlayer.handleVideoClick(e): a click at (dx, dy) from the top left
\* corner of a surface of the given width and height.
\* The division is exact for every click of Clicks.
ClampNone(v) == v
Clamp100(v) == Max(0, Min(100, v))
Percent(d, size) == (d * 100) \div size
Clicks == {[dx |-> -1, dy |-> 1, width |-> 4, height |-> 2],
           [dx |-> 5, dy |-> 3, width |-> 4, height |-> 2],
           [dx |-> 1, dy |-> -1, width |-> 4, height |-> 2]}

\* A player that is never told the picker is picking.
IsPickingZoomNever == FALSE
\* App passes isPickingZoom={pickingZoomIndex !== null}
IsPickingZoom == pickingZoomIndex # NullIndex

PlayerHandleVideoClick(click, ok) ==
    /\ Ready /\ HasVideo
    /\ IF IsPickingZoom
       THEN /\ AppHandleVideoClick(Clamp100(Percent(click.dx, click.width)),
                                   Clamp100(Percent(click.dy, click.height)), ok)
            /\ UNCHANGED isPlaying
       ELSE /\ isPlaying' = ~isPlaying
            /\ UNCHANGED <<histVars, lsAnalysis, pending, pickingZoomIndex>>
    /\ UNCHANGED <<videoFile, videoUrl, duration, currentTime, isAnalyzing, error,
                   lsVideoId, db, saving, loading, analyzeCall, crashed, waveVars,
                   videoTime, metaPending, currentSubtitle, zoomStyle, zoomPoint,
                   skipNotification, timers>>

(***************************************************************************)
(* VideoPlayer: the playback synchroniser.                                 *)
(***************************************************************************)
\* The media clock advances while playing.
Advance(d) ==
    /\ Ready /\ HasVideo /\ isPlaying
    /\ videoTime + d <= MaxTime
    /\ videoTime' = videoTime + d
    /\ UNCHANGED <<appVars, envVars, crashed, waveVars, metaPending, isPlaying,
                   currentSubtitle, zoomStyle, zoomPoint, skipNotification,
                   timers, pending>>

\* Assigning video.currentTime keeps the position within the media.
SeekTarget(t) == Max(0, Min(t, MaxTime))

\* handleTimeUpdate()
HandleTimeUpdate ==
    /\ Ready /\ HasVideo
    /\ LET time == videoTime
           activeCut == FindCut(analysis.cuts, time)
           activeSub == FindSubtitle(analysis.subtitles, time)
           activeZoom == FindZoom(analysis.zooms, time)
           zoomThrows == FindThrows(analysis.zooms, SpanMatches(analysis.zooms, time))
       IN  /\ currentTime' = time
           /\ pending' = IF time # currentTime THEN {"time"} ELSE {}
           /\ IF analysis = Null
              THEN UNCHANGED <<videoTime, currentSubtitle, zoomStyle, zoomPoint,
                               skipNotification, timers>>
              ELSE IF activeCut # Undefined
              THEN /\ timers < MaxTimers
                   /\ skipNotification' = activeCut.reason
                   /\ videoTime' = SeekTarget(activeCut.end)
                   /\ timers' = timers + 1
                   /\ UNCHANGED <<currentSubtitle, zoomStyle, zoomPoint>>
              ELSE /\ currentSubtitle' = OrNull(activeSub)
                   /\ IF zoomThrows
                      THEN UNCHANGED <<zoomPoint, zoomStyle>>
                      ELSE IF activeZoom # Undefined
                      THEN /\ zoomPoint' = [x |-> Coord(activeZoom, "x"),
                                            y |-> Coord(activeZoom, "y")]
                           /\ zoomStyle' = ZoomedStyle(activeZoom)
                      ELSE /\ zoomPoint' = Null
                           /\ zoomStyle' = IdentityStyle
                   /\ UNCHANGED <<videoTime, skipNotification, timers>>
    /\ UNCHANGED <<videoFile, videoUrl, duration, histVars, pickingZoomIndex,
                   isAnalyzing, error, envVars, crashed, waveVars, metaPending, isPlaying>>

\* setTimeout(() => setSkipNotification(null), 1000) fires.
TimerFires ==
    /\ Ready /\ timers > 0
    /\ timers' = timers - 1
    /\ skipNotification' = "null"
    /\ UNCHANGED <<appVars, envVars, crashed, waveVars, videoTime, metaPending, isPlaying,
                   currentSubtitle, zoomStyle, zoomPoint, pending>>

(***************************************************************************)
(* Specifications.                                                         *)
(***************************************************************************)
\* What the user types.
EditTexts == {Text(0)}
EditReasons == {"edited"}
EditLabels == {"Best bit"}
EditDescriptions == {"closer"}
TypedTimes == {[kind |-> "number", units |-> 3]}

\* Spec: the history manager.  The saved EDL is loaded, a video is uploaded
\* and analysed, the EDL is edited, undone and redone.  Writes to
\* localStorage succeed, the video is not persisted and the media clock
\* stands still.
Next ==
    \/ RunEffects
    \/ Reload
    \/ \E file \in {"A", "BIG"} : HandleFileUpload(file)
    \/ HandleAnalyze
    \/ \E result \in {Result0, Result1} : AnalyzeResolved(result, TRUE)
    \/ AnalyzeRejected
    \/ \E key \in Keys : HandleKeyDown(key, TRUE)
    \/ \E i \in 0..1, text \in EditTexts : HandleSubtitleUpdate(i, text, TRUE)
    \/ \E i \in 0..1 : HandleSubtitleDelete(i, TRUE)
    \/ \E i \in 0..1 :
           /\ analysis # Null /\ i \in Indices(analysis.cuts)
           /\ \E reason \in EditReasons :
                  CutItemSave(i, FormatTime(analysis.cuts[i + 1].start),
                              FormatTime(analysis.cuts[i + 1].end), reason, TRUE)
    \/ \E i \in 0..1 : HandleCutDelete(i, TRUE)
    \/ \E i \in 0..1 : HandlePromoteCutToHighlight(i, TRUE)
    \/ \E i \in 0..1, label \in EditLabels :
           HandleHighlightUpdate(i, [label |-> label], TRUE)
    \/ \E i \in 0..1 : HandleHighlightDelete(i, TRUE)
    \/ \E i \in 0..MaxZooms, d \in EditDescriptions :
           HandleZoomUpdate(i, [description |-> d], TRUE)

Spec == Init /\ [][Next]_vars

\* SpecSync: the playback synchroniser.  A video is uploaded and analysed;
\* it plays, is paused and sought, the media clock advances and ticks, and
\* the EDL is edited at any position.  The blob store does not answer
\* within these behaviours.
SeekTimes == {5}
NextSync ==
    \/ RunEffects
    \/ (videoFile = "null" /\ HandleFileUpload("A"))
    \/ HandleLoadedMetadata
    \/ HandleAnalyze
    \/ \E result \in {Result1, Result2} : AnalyzeResolved(result, TRUE)
    \/ \E click \in Clicks : PlayerHandleVideoClick(click, TRUE)
    \/ Advance(1)
    \/ HandleTimeUpdate
    \/ TimerFires
    \/ \E t \in SeekTimes : Seek(t)
    \/ HandleCutDelete(0, TRUE)
    \/ HandleSubtitleDelete(0, TRUE)

SpecSync == Init /\ [][NextSync]_vars

\* SpecWords: the word highlight.  One subtitle, drawn from SubtitleInputs,
\* is on display with the position at its start; the position is then set
\* anywhere in the media and ticks, and every render applies
\* ActiveSubtitleText to currentSubtitle and currentTime.
SubtitleInputs ==
    {[start |-> b, end |-> e, text |-> Text(n)] :
        b \in 0..MaxStart, e \in 1..(MaxStart + MaxSpan), n \in 0..3}

InitWords ==
    \E sub \in SubtitleInputs :
        /\ sub.start < sub.end /\ sub.end - sub.start <= MaxSpan
        /\ analysis = [cuts |-> <<>>, chapters |-> <<>>, zooms |-> <<>>,
                       subtitles |-> <<sub>>, highlights |-> <<>>]
        /\ history = <<analysis>> /\ historyIndex = 0 /\ trail = <<>>
        /\ lsAnalysis = Stringify(analysis)
        /\ videoFile = "A" /\ videoUrl = "A" /\ duration = MaxTime
        /\ currentTime = sub.start /\ videoTime = sub.start
        /\ currentSubtitle = sub
        /\ zoomStyle = IdentityStyle /\ zoomPoint = Null
        /\ pickingZoomIndex = NullIndex /\ isAnalyzing = FALSE /\ error = "null"
        /\ lsVideoId = "null" /\ db = {} /\ saving = {"A"}
        /\ loading = "null" /\ analyzeCall = "null"
        /\ crashed = FALSE /\ metaPending = FALSE /\ isPlaying = FALSE
        /\ skipNotification = "null" /\ timers = 0 /\ pending = {}
        /\ audioBuffer = Null /\ isDecoding = TRUE
        /\ loads = {Load("A", "fetch", FALSE)}
        /\ offsetWidth = MaxWidth /\ peaks = <<>> /\ drawn = <<>>

NextWords ==
    \/ \E t \in 0..MaxTime : Seek(t)
    \/ RunEffects
    \/ HandleTimeUpdate

SpecWords == InitWords /\ [][NextWords]_vars

\* What ActiveSubtitleText renders for the subtitle on display: the index it
\* computes and the words it highlights.
RenderedIndex ==
    ActiveIndex(currentSubtitle.text, currentSubtitle.start, currentSubtitle.end,
                currentTime)
RenderedActive ==
    ActiveWords(currentSubtitle.text, currentSubtitle.start, currentSubtitle.end,
                currentTime)

(***************************************************************************)
(* The playback synchroniser (SpecSync) and the word highlight (SpecWords). *)
(***************************************************************************)
\* The cuts and the subtitles of the current EDL that contain time t, by the
\* wording of the specification.
CutsAt(t) ==
    {i \in 1..Len(analysis.cuts) :
        analysis.cuts[i].start <= t /\ t < analysis.cuts[i].end}
SubtitlesAt(t) ==
    {i \in 1..Len(analysis.subtitles) :
        analysis.subtitles[i].start <= t /\ t <= analysis.subtitles[i].end}
First(S) == CHOOSE i \in S : \A j \in S : i <= j
NonePresented ==
    /\ currentSubtitle = Null
    /\ zoomPoint = Null
    /\ zoomStyle \in {IdentityStyle, EmptyStyle}

\* C1: whenever a cut contains the position a presentation state is derived
\* for, by a tick or by the recomputation that follows an edit of the EDL,
\* the derived state has no subtitle and no zoom.
C1_CutSuppresses ==
    [][(analysis # Null /\ HasVideo) =>
           /\ (HandleTimeUpdate /\ CutsAt(videoTime) # {}) => NonePresented'
           /\ (RunEffects /\ "analysis" \in pending /\ CutsAt(videoTime') # {}) =>
                  NonePresented']_vars

\* C2: a tick at t matches the cuts with start <= t < end; when there is
\* one, the tick sets the position to the end of the first of them, and
\* when there is none it leaves the position alone.
C2_CutMatch ==
    [][(HandleTimeUpdate /\ analysis # Null) =>
           IF CutsAt(videoTime) # {}
           THEN videoTime' = analysis.cuts[First(CutsAt(videoTime))].end
           ELSE videoTime' = videoTime]_vars

\* A tick at 3.0 s, the end of the first cut and inside the second, has
\* jumped to the end of the second.
C2_Witness ==
    /\ analysis # Null /\ analysis.cuts = Result2.cuts
    /\ currentTime = Result2.cuts[1].end
    /\ videoTime = Result2.cuts[2].end
    /\ skipNotification = Result2.cuts[2].reason

\* C3: a tick at t that no cut contains reports the first, in collection
\* order, of the subtitles with start <= t <= end, and none when there is
\* no such subtitle.
C3_SubtitleMatch ==
    [][(HandleTimeUpdate /\ analysis # Null /\ CutsAt(videoTime) = {}) =>
           currentSubtitle' = IF SubtitlesAt(videoTime) = {} THEN Null
                              ELSE analysis.subtitles[First(SubtitlesAt(videoTime))]]_vars

\* A tick at the end of the first subtitle, which the second contains too,
\* has reported the first.
C3_Witness ==
    /\ analysis # Null /\ analysis.subtitles = Result2.subtitles
    /\ currentTime = Result2.subtitles[1].end
    /\ videoTime = currentTime /\ pending = {}
    /\ Cardinality(SubtitlesAt(currentTime)) = 2
    /\ currentSubtitle = Result2.subtitles[1]

\* C4: for the subtitle on display, with start < end, the word index does
\* not decrease as t goes from start to end, at t = end it is the index of
\* the last word, and at every t from start to end exactly one word is
\* highlighted.
C4_WordIndex ==
    (currentSubtitle # Null /\ currentSubtitle.start < currentSubtitle.end) =>
        LET sub == currentSubtitle
            wordCount == Len(Split(sub.text))
            index(t) == ActiveIndex(sub.text, sub.start, sub.end, t)
        IN  /\ \A t1, t2 \in sub.start..sub.end :
                   t1 <= t2 => index(t1) <= index(t2)
            /\ currentTime = sub.end => RenderedIndex = wordCount - 1
            /\ currentTime \in sub.start..sub.end => Cardinality(RenderedActive) = 1

(***************************************************************************)
(* The history manager (Spec).                                             *)
(***************************************************************************)
\* The history state after the step.
HistAfter == HistoryState(history', historyIndex', analysis')
LastOp == IF trail = <<>> THEN "none" ELSE trail[Len(trail)]
UndoStep == HandleKeyDown("Ctrl+Z", TRUE)
RedoStep == HandleKeyDown("Ctrl+Y", TRUE) \/ HandleKeyDown("Ctrl+Shift+Z", TRUE)

\* C5: when an edit is recorded on a non-empty history, an undo that follows
\* makes the current EDL the one that was current before the record, and a
\* redo after that undo makes the recorded EDL current again.
C5_RecordUndoRedo ==
    [][(history # <<>> /\ Record(analysis', TRUE)) =>
           LET undone == UndoState(HistAfter)
           IN  /\ CanUndo(HistAfter)
               /\ undone.analysis = analysis
               /\ CanRedo(undone)
               /\ RedoState(undone).analysis = analysis']_vars

\* A record, its undo and its redo have happened, in this order.
C5_Witness ==
    /\ trail = <<"record", "undo", "redo">>
    /\ historyIndex = Len(history) - 1

\* C6: when B is recorded right after record(A) and undo(), the entries end
\* with B at the place that held A, a redo leaves the history state as it
\* is, and A is found in the entries no more (unless B or a kept entry has
\* the same value).
C6_BranchTruncation ==
    [][(/\ Len(trail) >= 2
        /\ trail[Len(trail)] = "undo" /\ trail[Len(trail) - 1] = "record"
        /\ Record(analysis', TRUE)) =>
           LET A == history[historyIndex + 2]
               kept == {history[j] : j \in 1..(historyIndex + 1)}
           IN  /\ ~CanRedo(HistAfter)
               /\ RedoState(HistAfter) = HistAfter
               /\ analysis' = history'[Len(history')]
               /\ Len(history') = historyIndex + 2
               /\ (A # analysis' /\ A \notin kept) =>
                      \A j \in 1..Len(history') : history'[j] # A]_vars

\* record, undo, record and then a redo that found nothing to redo.
C6_Witness ==
    /\ trail = <<"undo", "record", "redo-noop">>
    /\ Len(history) >= 2
    /\ historyIndex = Len(history) - 1

\* C7: the current EDL is the history entry under the cursor, and there is
\* no current EDL exactly when the history is empty.
C7_CurrentIsEntry ==
    /\ (analysis = Null) <=> (history = <<>>)
    /\ history # <<>> =>
           /\ historyIndex \in 0..(Len(history) - 1)
           /\ analysis = history[historyIndex + 1]

\* An undo has moved the cursor off the newest of three entries.
C7_Witness ==
    /\ Len(history) = MaxHist
    /\ LastOp = "undo"
    /\ analysis # history[Len(history)]

\* C8: a record keeps the entries up to the cursor, in order, puts the new
\* EDL after them and nothing else, moves the cursor to it and makes it the
\* current EDL.
C8_Record ==
    [][Record(analysis', TRUE) =>
           /\ Len(history') = historyIndex + 2
           /\ \A j \in 1..(historyIndex + 1) : history'[j] = history[j]
           /\ history'[Len(history')] = analysis'
           /\ historyIndex' = Len(history') - 1]_vars

\* A record has filled the history, keeping two earlier entries.
C8_Witness ==
    /\ LastOp = "record"
    /\ Len(history) = MaxHist /\ historyIndex = MaxHist - 1

\* C9: undo at the first entry (or on an empty history) and redo at the
\* newest entry change neither the entries, the cursor, the current EDL nor
\* the persisted EDL; any other undo or redo moves the cursor by exactly one
\* and leaves the entries as they are.
C9_UndoRedoFrame ==
    [][/\ (UndoStep /\ historyIndex <= 0) =>
              UNCHANGED <<history, historyIndex, analysis, lsAnalysis>>
       /\ (RedoStep /\ historyIndex >= Len(history) - 1) =>
              UNCHANGED <<history, historyIndex, analysis, lsAnalysis>>
       /\ (UndoStep /\ historyIndex > 0) =>
              (historyIndex' = historyIndex - 1 /\ history' = history)
       /\ (RedoStep /\ historyIndex < Len(history) - 1) =>
              (historyIndex' = historyIndex + 1 /\ history' = history)]_vars

\* Everything was undone and one more undo found nothing to undo.
C9_Witness ==
    /\ Len(trail) >= 2
    /\ trail[Len(trail)] = "undo-noop" /\ trail[Len(trail) - 1] = "undo"
    /\ historyIndex = 0 /\ Len(history) >= 2

\* C10: when an analysis result arrives, or the saved EDL is loaded at
\* startup, the history is that one EDL with the cursor on it, and neither
\* undo nor redo has anything to do.
C10_Reset ==
    [][((\E r \in Results : AnalyzeResolved(r, TRUE)) \/ (Reload /\ lsAnalysis # NoItem)) =>
           /\ history' = <<analysis'>>
           /\ historyIndex' = 0
           /\ \A r \in Results : AnalyzeResolved(r, TRUE) => analysis' = r
           /\ Reload => analysis' = JsonParse(lsAnalysis)
           /\ UndoState(HistAfter) = HistAfter
           /\ RedoState(HistAfter) = HistAfter]_vars

\* An edited EDL was loaded at startup: it is the only entry, and it is no
\* result of the analysis service.
C10_Witness ==
    /\ history = <<analysis>> /\ historyIndex = 0
    /\ analysis \notin Results
    /\ videoFile = "null"

(***************************************************************************)
(* Promotion of a cut to a highlight (SpecPromote).                        *)
(***************************************************************************)
\* SpecPromote: a video is uploaded and analysed into an EDL with two cuts;
\* cuts are promoted and deleted, highlights relabelled and deleted, and
\* the edits undone and redone.
NextPromote ==
    \/ RunEffects
    \/ Reload
    \/ (videoFile = "null" /\ HandleFileUpload("A"))
    \/ HandleAnalyze
    \/ AnalyzeResolved(Result2, TRUE)
    \/ \E i \in 0..1 : HandlePromoteCutToHighlight(i, TRUE)
    \/ \E i \in 0..1 : HandleCutDelete(i, TRUE)
    \/ \E i \in 0..1 : HandleHighlightDelete(i, TRUE)
    \/ \E i \in 0..1, label \in EditLabels :
           HandleHighlightUpdate(i, [label |-> label], TRUE)
    \/ \E key \in {"Ctrl+Z", "Ctrl+Y"} : HandleKeyDown(key, TRUE)

SpecPromote == Init /\ [][NextPromote]_vars

\* C11: promoting the cut at a valid index i is one record step whose EDL
\* has the old cuts without element i, in order, the old highlights followed
\* by one highlight with that cut's start and end, as many segments in the
\* two collections together as before, and everything else as it was; no
\* other EDL enters the history.
C11_PromotionAtomic ==
    [][\A i \in 0..1 :
           HandlePromoteCutToHighlight(i, TRUE) =>
               LET old == analysis
                   new == analysis'
                   n == Len(old.highlights)
               IN  /\ Len(new.cuts) = Len(old.cuts) - 1
                   /\ \A k \in 1..Len(new.cuts) :
                          new.cuts[k] = IF k <= i THEN old.cuts[k] ELSE old.cuts[k + 1]
                   /\ Len(new.highlights) = n + 1
                   /\ \A k \in 1..n : new.highlights[k] = old.highlights[k]
                   /\ new.highlights[n + 1].start = old.cuts[i + 1].start
                   /\ new.highlights[n + 1].end = old.cuts[i + 1].end
                   /\ Len(new.cuts) + Len(new.highlights) = Len(old.cuts) + n
                   /\ new.zooms = old.zooms /\ new.subtitles = old.subtitles
                   /\ new.chapters = old.chapters
                   /\ history' = SubSeq(history, 1, historyIndex + 1) \o <<new>>
                   /\ historyIndex' = historyIndex + 1]_vars

\* The first of two cuts was promoted: the second is the only cut left and
\* the first is the only highlight.
C11_Witness ==
    /\ LastOp = "record" /\ analysis # Null
    /\ analysis.cuts = <<Result2.cuts[2]>>
    /\ Len(analysis.highlights) = 1
    /\ analysis.highlights[1].start = Result2.cuts[1].start
    /\ analysis.highlights[1].end = Result2.cuts[1].end

(***************************************************************************)
(* The focus-point picker (SpecPick).                                      *)
(***************************************************************************)
\* SpecPick: a video is uploaded and analysed; zooms are added at the start
\* and in the middle of the media, the picker is entered by add-zoom and by
\* Set Focus, the surface is clicked, Escape and the undo key are pressed.
\* Writes to localStorage succeed.
PickTimes == {0, 4}
NextPick ==
    \/ RunEffects
    \/ (videoFile = "null" /\ HandleFileUpload("A"))
    \/ HandleLoadedMetadata
    \/ HandleAnalyze
    \/ AnalyzeResolved(Result1, TRUE)
    \/ \E t \in PickTimes : Seek(t)
    \/ HandleAddZoom(TRUE)
    \/ \E i \in 0..(MaxZooms - 1) : SetFocus(i)
    \/ \E click \in Clicks : PlayerHandleVideoClick(click, TRUE)
    \/ \E key \in {"Escape", "Ctrl+Z"} : HandleKeyDown(key, TRUE)

SpecPick == Init /\ [][NextPick]_vars

\* The zooms of every EDL of the history whose focus is stored.
StoredFocusInRange ==
    \A e \in 1..Len(history) : \A k \in 1..Len(history[e].zooms) :
        LET z == history[e].zooms[k]
        IN  \A c \in {"x", "y"} \cap Props(z) : z[c] >= 0 /\ z[c] <= 100

\* C12: a click while picking stores x = 0 when it is left of the surface,
\* x = 100 when it is right of it and 100 * (clickX - left) / width in
\* between, and y likewise; every focus coordinate stored in the history
\* lies in [0, 100].
C12_ClickClamped ==
    [][\A click \in Clicks :
           (pickingZoomIndex # NullIndex /\ analysis # Null
                /\ PlayerHandleVideoClick(click, TRUE)) =>
               LET z == analysis'.zooms[pickingZoomIndex + 1]
               IN  /\ click.dx <= 0 => z.x = 0
                   /\ click.dx >= click.width => z.x = 100
                   /\ (click.dx > 0 /\ click.dx < click.width) =>
                          z.x * click.width = 100 * click.dx
                   /\ click.dy <= 0 => z.y = 0
                   /\ click.dy >= click.height => z.y = 100
                   /\ (click.dy > 0 /\ click.dy < click.height) =>
                          z.y * click.height = 100 * click.dy
                   /\ StoredFocusInRange']_vars

\* A click left of the surface, a click right of and below it, and a click
\* inside its width and above it have each stored a focus.
C12_Witness ==
    /\ pickingZoomIndex = NullIndex /\ Len(history) = MaxHist
    /\ \E k \in 1..Len(analysis.zooms) :
           /\ {"x", "y"} \subseteq Props(analysis.zooms[k])
           /\ analysis.zooms[k].x = 25 /\ analysis.zooms[k].y = 0
    /\ \E e \in 1..Len(history) : \E k \in 1..Len(history[e].zooms) :
           /\ {"x", "y"} \subseteq Props(history[e].zooms[k])
           /\ history[e].zooms[k].x = 100 /\ history[e].zooms[k].y = 100

\* What zooms[k] reads (k from 1): an empty slot reads as undefined.
ZoomRead(a, k) == IF a.zooms[k] = Hole THEN Undefined ELSE a.zooms[k]

\* C13: a click on the surface while the picker is picking zoom i of the
\* EDL records one new EDL, in which zoom i has the clicked x and y and its
\* other fields as before, every other index of zooms reads as before and
\* every other collection is as before, and leaves the picker idle.
C13_ClickUpdatesZoom ==
    [][\A click \in Clicks :
           (/\ analysis # Null
            /\ pickingZoomIndex \in Indices(analysis.zooms)
            /\ ~Nullish(analysis.zooms[pickingZoomIndex + 1])
            /\ PlayerHandleVideoClick(click, TRUE)) =>
               LET i == pickingZoomIndex + 1
                   old == analysis.zooms[i]
                   new == analysis'.zooms[i]
               IN  /\ Len(analysis'.zooms) = Len(analysis.zooms)
                   /\ \A k \in 1..Len(analysis.zooms) :
                          k # i => ZoomRead(analysis', k) = ZoomRead(analysis, k)
                   /\ Props(new) = Props(old) \cup {"x", "y"}
                   /\ \A f \in Props(old) \ {"x", "y"} : new[f] = old[f]
                   /\ new.x = Clamp100(Percent(click.dx, click.width))
                   /\ new.y = Clamp100(Percent(click.dy, click.height))
                   /\ \A f \in {"cuts", "chapters", "subtitles", "highlights"} :
                          analysis'[f] = analysis[f]
                   /\ history' = SubSeq(history, 1, historyIndex + 1) \o <<analysis'>>
                   /\ historyIndex' = historyIndex + 1
                   /\ pickingZoomIndex' = NullIndex]_vars

\* The zoom of the analysis result, which had no x and y, was picked with
\* Set Focus and clicked while a zoom added by hand stands before it.
C13_Witness ==
    /\ pickingZoomIndex = NullIndex /\ LastOp = "record"
    /\ analysis # Null /\ Len(analysis.zooms) = 2
    /\ analysis.zooms[1].description = "Manual Focus"
    /\ analysis.zooms[2].target = "top-left"
    /\ {"x", "y"} \subseteq Props(analysis.zooms[2])
    /\ analysis.zooms[2].x = 100

\* C14: Escape while picking leaves the picker idle and the EDL, the
\* history entries, the cursor and the persisted EDL as they are; Escape
\* while idle changes nothing at all.
C14_EscapeCancels ==
    [][HandleKeyDown("Escape", TRUE) =>
           /\ pickingZoomIndex' = NullIndex
           /\ UNCHANGED <<analysis, history, historyIndex, lsAnalysis>>
           /\ pickingZoomIndex = NullIndex => UNCHANGED vars]_vars

\* Escape has cancelled the picking that add-zoom started.
C14_Witness ==
    /\ Len(trail) >= 2
    /\ trail[Len(trail)] = "cancel" /\ trail[Len(trail) - 1] = "record"
    /\ pickingZoomIndex = NullIndex

\* C15: a click on the surface changes the playing state exactly when the
\* picker is idle.
C15_ClickTogglesWhenIdle ==
    [][\A click \in Clicks :
           PlayerHandleVideoClick(click, TRUE) =>
               ((isPlaying' # isPlaying) <=> (pickingZoomIndex = NullIndex))]_vars

\* The video was started by a click, and a click while picking has stored
\* a focus and left it playing.
C15_Witness ==
    /\ isPlaying /\ LastOp = "record"
    /\ pickingZoomIndex = NullIndex
    /\ analysis # Null /\ Len(analysis.zooms) = 1
    /\ "x" \in Props(analysis.zooms[1])

(***************************************************************************)
(* Writes to localStorage that raise (SpecQuota).                          *)
(***************************************************************************)
\* SpecQuota: a video is uploaded and analysed; a subtitle is deleted, a
\* zoom is added, the surface is clicked, and the undo and redo keys are
\* pressed, and each write of the EDL to localStorage succeeds or raises
\* (the quota is exceeded).
QuotaClicks == {click \in Clicks : click.dx > 0 /\ click.dx < click.width}
NextQuota ==
    \/ RunEffects
    \/ (videoFile = "null" /\ HandleFileUpload("A"))
    \/ HandleLoadedMetadata
    \/ HandleAnalyze
    \/ AnalyzeResolved(Result1, TRUE)
    \/ \E ok \in BOOLEAN : HandleSubtitleDelete(0, ok)
    \/ \E ok \in BOOLEAN : HandleAddZoom(ok)
    \/ \E click \in QuotaClicks, ok \in BOOLEAN : PlayerHandleVideoClick(click, ok)
    \/ \E key \in {"Ctrl+Z", "Ctrl+Y"}, ok \in BOOLEAN : HandleKeyDown(key, ok)

SpecQuota == Init /\ [][NextQuota]_vars

\* C16: when the write of the EDL raises during a record, an undo or a
\* redo, the entries, the cursor and the current EDL become what they
\* become when the write succeeds, the picker is idle after a focus click
\* and is picking the new zoom after add-zoom.
C16_WriteFailureHarmless ==
    [][/\ HandleSubtitleDelete(0, FALSE) =>
              HistAfter = PushToHistory(Hist,
                  Spread(analysis, [subtitles |-> FilterOut(analysis.subtitles, 0)]))
       /\ HandleKeyDown("Ctrl+Z", FALSE) => HistAfter = UndoState(Hist)
       /\ HandleKeyDown("Ctrl+Y", FALSE) => HistAfter = RedoState(Hist)
       /\ \A click \in QuotaClicks :
              (IsPickingZoom /\ analysis # Null
                   /\ PlayerHandleVideoClick(click, FALSE)) =>
                  /\ HistAfter = PushToHistory(Hist,
                         ZoomUpdated(analysis, pickingZoomIndex,
                             [x |-> Clamp100(Percent(click.dx, click.width)),
                              y |-> Clamp100(Percent(click.dy, click.height))]))
                  /\ pickingZoomIndex' = NullIndex
       /\ HandleAddZoom(FALSE) =>
              LET newZoom == NewZoom(currentTime, duration)
              IN  /\ HistAfter = PushToHistory(Hist,
                         Spread(analysis, [zooms |-> AddedZooms(analysis.zooms, newZoom)]))
                  /\ pickingZoomIndex' = AddedIndex(analysis.zooms, newZoom)]_vars

(***************************************************************************)
(* Persistence (SpecStale), upload and analysis failure (Spec).            *)
(***************************************************************************)
\* SpecStale: a video is uploaded and analysed into an EDL without zooms;
\* zooms are added, which enters the picker, the additions are undone while
\* the picker is picking, the surface is clicked, and the page is reloaded.
NextStale ==
    \/ RunEffects
    \/ Reload
    \/ (videoFile = "null" /\ HandleFileUpload("A"))
    \/ HandleLoadedMetadata
    \/ HandleAnalyze
    \/ AnalyzeResolved(Result0, TRUE)
    \/ HandleAddZoom(TRUE)
    \/ \E key \in {"Escape", "Ctrl+Z"} : HandleKeyDown(key, TRUE)
    \/ \E click \in QuotaClicks : PlayerHandleVideoClick(click, TRUE)

SpecStale == Init /\ [][NextStale]_vars

C18_OversizeRejected ==
    [][\A file \in Files :
           (FileSize(file) > MaxFileSize /\ HandleFileUpload(file)) =>
               /\ UNCHANGED <<videoFile, videoUrl, analysis, history, historyIndex,
                              db, saving, lsVideoId, lsAnalysis>>
               /\ error' = "File size exceeds 1GB limit."]_vars

\* A file that is too large was chosen while a video and its EDL were
\* loaded, and both are still there.
C18_Witness ==
    /\ error = "File size exceeds 1GB limit."
    /\ videoFile = "A" /\ analysis # Null /\ Len(history) >= 2

\* C19: from the analysis call to its failure the current EDL, the history
\* entries, the cursor and the persisted EDL stay as they are; the failure
\* sets the error message and resets the analyzing flag.
C19_AnalysisFailure ==
    [][/\ (analyzeCall # "null" /\ (analyzeCall' # "null" \/ AnalyzeRejected)) =>
              UNCHANGED <<analysis, history, historyIndex, lsAnalysis>>
       /\ AnalyzeRejected =>
              /\ error' = "Failed to analyze video. Check API Key or file format."
              /\ isAnalyzing' = FALSE]_vars

\* The analysis of a new video has failed while an EDL of an earlier
\* session is persisted.
C19_Witness ==
    /\ error = "Failed to analyze video. Check API Key or file format."
    /\ ~isAnalyzing /\ analyzeCall = "null"
    /\ videoFile = "A" /\ analysis = Null /\ history = <<>>
    /\ lsAnalysis # NoItem

(***************************************************************************)
(* The zoom transform (SpecSync).                                          *)
(***************************************************************************)
ZoomsAt(t) ==
    {i \in 1..Len(analysis.zooms) :
        analysis.zooms[i].start <= t /\ t <= analysis.zooms[i].end}
\* The focus point the specification derives from a target.
TargetPoint(target) ==
    CASE target = "top-left" -> [x |-> 0, y |-> 0]
      [] target = "top-right" -> [x |-> 100, y |-> 0]
      [] target = "bottom-left" -> [x |-> 0, y |-> 100]
      [] target = "bottom-right" -> [x |-> 100, y |-> 100]
      [] OTHER -> [x |-> 50, y |-> 50]

\* C20: a tick that no cut contains and that the zoom z contains, z being
\* the first such zoom, emits a transform whose origin is (z.x, z.y) and
\* whose scale is 2.5 when z has x and y, and whose origin is the point of
\* z.target and whose scale is 1.5 when it has not.
C20_ZoomTransform ==
    [][(/\ HandleTimeUpdate /\ analysis # Null
        /\ CutsAt(videoTime) = {} /\ ZoomsAt(videoTime) # {}) =>
           LET z == analysis.zooms[First(ZoomsAt(videoTime))]
           IN  IF {"x", "y"} \subseteq DOMAIN z
               THEN /\ zoomStyle'.transformOrigin = [x |-> z.x, y |-> z.y]
                    /\ zoomStyle'.transform = "scale(2.5)"
               ELSE /\ zoomStyle'.transformOrigin = TargetPoint(z.target)
                    /\ zoomStyle'.transform = "scale(1.5)"]_vars

\* C21: after a tick at t, the subtitle is none when no subtitle of the
\* EDL contains t, the zoom is the identity transform (or the style of the
\* mount, which transforms nothing), with no focus point, when no zoom
\* contains t, and a subtitle or a focus point that is shown is one of a
\* subtitle or a zoom that contains t.
C21_NoStaleOutputs ==
    [][(HandleTimeUpdate /\ analysis # Null) =>
           /\ SubtitlesAt(videoTime) = {} => currentSubtitle' = Null
           /\ ZoomsAt(videoTime) = {} =>
                  zoomStyle' \in {IdentityStyle, EmptyStyle} /\ zoomPoint' = Null
           /\ currentSubtitle' # Null =>
                  \E i \in SubtitlesAt(videoTime) :
                      currentSubtitle' = analysis.subtitles[i]
           /\ zoomPoint' # Null => ZoomsAt(videoTime) # {}]_vars

\* C22: in every frame whose effects have run, the subtitle on display
\* contains the time its word index is computed from, the controller's
\* currentTime: start <= currentTime <= end.
C22_SubtitleContainsTime ==
    (~crashed /\ pending = {} /\ currentSubtitle # Null) =>
        /\ currentSubtitle.start <= currentTime
        /\ currentTime <= currentSubtitle.end

(***************************************************************************)
(* The waveform: loading (SpecWave) and drawing (SpecDraw).                *)
(***************************************************************************)
\* SpecWave: videos are uploaded one after another while the audio of the
\* earlier ones is still being fetched, read or decoded; every await of a
\* load succeeds or fails; the video plays and ticks meanwhile.
NextWave ==
    \/ \E file \in {"A", "B"} : HandleFileUpload(file)
    \/ HandleLoadedMetadata
    \/ \E click \in QuotaClicks : PlayerHandleVideoClick(click, TRUE)
    \/ Advance(MaxTime)
    \/ HandleTimeUpdate
    \/ RunEffects
    \/ \E l \in loads, ok \in BOOLEAN : FetchDone(l, ok)
    \/ \E l \in loads, ok \in BOOLEAN : BodyDone(l, ok)
    \/ \E l \in loads : \E result \in {Samples(l.src), Failed} :
           DecodeDone(l, result)

SpecWave == Init /\ [][NextWave]_vars

\* SpecDraw: one video is uploaded and its audio, any buffer of Buffers, is
\* decoded and drawn; the canvas is then resized and drawn again.
NextDraw ==
    \/ (videoFile = "null" /\ HandleFileUpload("A"))
    \/ \E l \in loads : FetchDone(l, TRUE)
    \/ \E l \in loads : BodyDone(l, TRUE)
    \/ \E l \in loads, buffer \in Buffers : DecodeDone(l, buffer)
    \/ \E w \in 1..MaxWidth : Resize(w)
    \/ Redraw

SpecDraw == Init /\ [][NextDraw]_vars

\* C23: a step that installs a waveform buffer installs the decoded audio
\* of the load of the current source, the one load that no later load has
\* aborted.
C23_LastRequestWins ==
    [][audioBuffer' # audioBuffer =>
           \E l \in loads :
               /\ l.stage = "decode" /\ ~l.aborted /\ l.src = videoUrl
               /\ audioBuffer' = Samples(l.src)]_vars

\* C24: when an await of the load of the current source fails, no buffer
\* is on display afterwards, no error is set, the tree stays mounted and
\* the state of the controller and of the player is as it was.
C24_LoadFailureDegrades ==
    [][\A l \in loads :
           (/\ ~l.aborted
            /\ FetchDone(l, FALSE) \/ BodyDone(l, FALSE) \/ DecodeDone(l, Failed)) =>
               /\ audioBuffer' = Null
               /\ UNCHANGED <<appVars, envVars, crashed, playerVars, pending>>]_vars

ScannedBy(i, step, N) == {k \in 0..(N - 1) : i * step <= k /\ k < i * step + step}

\* C26: for every draw of N samples at width W, with N >= W >= 1 and
\* step = ceil(N / W), column i holds the least and the greatest of the samples at the indices
\* from i * step to i * step + step - 1, every pair has
\* -1 <= min <= max <= 1, and every sample index is scanned by exactly one
\* column.
C26_ColumnPairs ==
    \A n \in 1..Len(drawn) :
        LET d == drawn[n]
            N == Len(d.data)
            W == d.width
            step == CeilDiv(N, W)
        IN  (N >= W /\ W >= 1) =>
            /\ Len(d.peaks) = W
            /\ \A i \in 0..(W - 1) :
                   LET pair == d.peaks[i + 1]
                       scanned == {d.data[k + 1] : k \in ScannedBy(i, step, N)}
                   IN  /\ \A v \in scanned : pair.min <= v /\ v <= pair.max
                       /\ scanned # {} => pair.min \in scanned /\ pair.max \in scanned
                       /\ 0 - FullScale <= pair.min
                       /\ pair.min <= pair.max
                       /\ pair.max <= FullScale
            /\ \A k \in 0..(N - 1) :
                   Cardinality({i \in 0..(W - 1) : k \in ScannedBy(i, step, N)}) = 1

(***************************************************************************)
(* The end-to-end scenario (SpecScenario).                                 *)
(***************************************************************************)
HelloWorld == <<"h", "e", "l", "l", "o", " ", "w", "o", "r", "l", "d">>
\* cuts = [{0, 2, "silence"}], subtitles = [{2, 5, "hello world"}]
ScenarioResult ==
    [cuts      |-> << [start |-> 0, end |-> 4, reason |-> "silence"] >>,
     chapters  |-> <<>>,
     zooms     |-> <<>>,
     subtitles |-> << [start |-> 4, end |-> 10, text |-> HelloWorld] >>,
     highlights |-> <<>>]

\* SpecScenario: a video is uploaded and the analysis gives the scenario's
\* EDL; the video plays and ticks, the user seeks into the cut and to
\* 3.5 s, and empties the text of the subtitle.
ScenarioSeeks == {1, 3, 7}
NextScenario ==
    \/ RunEffects
    \/ (videoFile = "null" /\ HandleFileUpload("A"))
    \/ HandleLoadedMetadata
    \/ HandleAnalyze
    \/ AnalyzeResolved(ScenarioResult, TRUE)
    \/ \E click \in QuotaClicks : PlayerHandleVideoClick(click, TRUE)
    \/ Advance(1)
    \/ HandleTimeUpdate
    \/ TimerFires
    \/ \E t \in ScenarioSeeks : Seek(t)
    \/ HandleSubtitleUpdate(0, Text(0), TRUE)

SpecScenario == Init /\ [][NextScenario]_vars

\* C27: with the scenario's EDL, a tick at a time from 0 to 2 s, 2 s not
\* included, sets the position to 2 s and leaves no subtitle on display,
\* and a tick at 3.5 s displays "hello world" with the word index 1.
C27_Scenario ==
    [][(HandleTimeUpdate /\ analysis = ScenarioResult) =>
           /\ videoTime \in 0..3 =>
                  videoTime' = 4 /\ currentSubtitle' = Null
           /\ videoTime = 7 =>
                  /\ currentSubtitle' = ScenarioResult.subtitles[1]
                  /\ ActiveIndex(currentSubtitle'.text, currentSubtitle'.start,
                                 currentSubtitle'.end, currentTime') = 1]_vars

\* C29: setting the text of a subtitle to the empty string leaves it in
\* the collection, with its times, and a tick that no cut contains and
\* whose first matching subtitle has an empty text displays no subtitle.
C29_EmptySubtitle ==
    [][/\ \A i \in 0..1 :
              HandleSubtitleUpdate(i, Text(0), TRUE) =>
                  /\ Len(analysis'.subtitles) = Len(analysis.subtitles)
                  /\ analysis'.subtitles[i + 1] =
                         [analysis.subtitles[i + 1] EXCEPT !.text = Text(0)]
       /\ (/\ HandleTimeUpdate /\ analysis # Null
           /\ CutsAt(videoTime) = {} /\ SubtitlesAt(videoTime) # {}
           /\ analysis.subtitles[First(SubtitlesAt(videoTime))].text = Text(0)) =>
              currentSubtitle' = Null]_vars

(***************************************************************************)
(* Loading a saved EDL (SpecLoad) and the history entries (Spec).          *)
(***************************************************************************)
Collections == {"cuts", "chapters", "zooms", "subtitles", "highlights"}

\* What an earlier session may have saved: an EDL with any of its
\* collections missing.
SavedValues ==
    {[k \in D |-> Stringify(result)[k]] :
        D \in SUBSET Collections, result \in {Result1, Result2}}

InitLoad ==
    /\ Mounted
    /\ lsAnalysis \in SavedValues /\ lsVideoId = "null"
    /\ db = {} /\ saving = {} /\ loading = "null" /\ analyzeCall = "null"
    /\ offsetWidth = MaxWidth

\* SpecLoad: the page is opened on a saved EDL, which is loaded, rendered
\* and edited.
NextLoad ==
    \/ Reload
    \/ RunEffects
    \/ HandlePromoteCutToHighlight(0, TRUE)
    \/ \E label \in EditLabels : HandleHighlightUpdate(0, [label |-> label], TRUE)
    \/ HandleHighlightDelete(0, TRUE)
    \/ \E key \in {"Ctrl+Z", "Ctrl+Y"} : HandleKeyDown(key, TRUE)

SpecLoad == InitLoad /\ [][NextLoad]_vars

\* C28: the current EDL and every history entry have all five collections,
\* whatever collections the saved value that was loaded had.
C28_CollectionsDefined ==
    /\ analysis # Null => DOMAIN analysis = Collections
    /\ \A e \in 1..Len(history) : DOMAIN history[e] = Collections

\* SpecEdit: the EDL of an analysis result is edited in every way the
\* controller offers, and the edits are undone and redone.
NextEdit ==
    \/ RunEffects
    \/ (videoFile = "null" /\ HandleFileUpload("A"))
    \/ HandleLoadedMetadata
    \/ HandleAnalyze
    \/ AnalyzeResolved(Result2, TRUE)
    \/ \E key \in {"Ctrl+Z", "Ctrl+Y"} : HandleKeyDown(key, TRUE)
    \/ \E text \in EditTexts : HandleSubtitleUpdate(0, text, TRUE)
    \/ HandleCutDelete(0, TRUE)
    \/ HandlePromoteCutToHighlight(0, TRUE)
    \/ \E label \in EditLabels : HandleHighlightUpdate(0, [label |-> label], TRUE)
    \/ HandleAddZoom(TRUE)
    \/ \E click \in QuotaClicks : PlayerHandleVideoClick(click, TRUE)

SpecEdit == Init /\ [][NextEdit]_vars

\* C30: a step that edits, undoes or redoes leaves every history entry up
\* to the cursor, the previously current EDL among them, as it was; an
\* undo or a redo leaves every entry as it was.
C30_SnapshotsImmutable ==
    [][(analysis # Null /\ analysis' # Null) =>
           /\ Len(history') >= historyIndex + 1
           /\ \A e \in 1..(historyIndex + 1) : history'[e] = history[e]
           /\ history'[historyIndex + 1] = analysis
           /\ (UndoStep \/ RedoStep) => history' = history]_vars

\* A zoom was added and a cut was promoted; the promotion was undone, and
\* the three entries are all there.
C30_Witness ==
    /\ Len(history) = 3 /\ historyIndex = 1 /\ LastOp = "undo"
    /\ Len(history[1].zooms) < Len(history[2].zooms)
    /\ history[3].zooms = history[2].zooms
    /\ Len(history[3].highlights) = 1 /\ history[2].highlights = <<>>
    /\ analysis = history[2]

(***************************************************************************)
(* Edits of one collection (SpecCollections).                              *)
(***************************************************************************)
\* An analysis result with three subtitles, two cuts, two zooms and two
\* highlights.
EditResult ==
    [cuts      |-> << [start |-> 0, end |-> 2, reason |-> "silence"],
                      [start |-> 6, end |-> 8, reason |-> "filler"] >>,
     chapters  |-> << [timestamp |-> 0, title |-> "Intro"] >>,
     zooms     |-> << [start |-> 2, end |-> 4, target |-> "center",
                       description |-> "wide", x |-> 20, y |-> 80],
                      [start |-> 4, end |-> 6, target |-> "top-left",
                       description |-> "face"] >>,
     subtitles |-> << [start |-> 2, end |-> 4, text |-> Text(1)],
                      [start |-> 4, end |-> 6, text |-> Text(2)],
                      [start |-> 6, end |-> 9, text |-> Text(3)] >>,
     highlights |-> << [start |-> 2, end |-> 3, label |-> "Hook"],
                       [start |-> 8, end |-> 10, label |-> "Outro"] >>]

\* The fields the Sidebar items pass to the update handlers.
CutFields == {[reason |-> "edited"], [start |-> 1, end |-> 3, reason |-> "edited"]}
ZoomFields == {[description |-> "closer"], [x |-> 10, y |-> 90]}
HighlightFields == {[label |-> "Best bit"]}
SubtitleFields == {[text |-> t] : t \in EditTexts}

\* SpecCollections: a video is uploaded and analysed into EditResult, and
\* every update and delete handler is applied at every valid index.
NextCollections ==
    \/ RunEffects
    \/ (videoFile = "null" /\ HandleFileUpload("A"))
    \/ HandleAnalyze
    \/ AnalyzeResolved(EditResult, TRUE)
    \/ \E i \in 0..2, f \in SubtitleFields : HandleSubtitleUpdate(i, f.text, TRUE)
    \/ \E i \in 0..2 : HandleSubtitleDelete(i, TRUE)
    \/ \E i \in 0..1, f \in CutFields : HandleCutUpdate(i, f, TRUE)
    \/ \E i \in 0..1 : HandleCutDelete(i, TRUE)
    \/ \E i \in 0..1, f \in ZoomFields : HandleZoomUpdate(i, f, TRUE)
    \/ \E i \in 0..1, f \in HighlightFields : HandleHighlightUpdate(i, f, TRUE)
    \/ \E i \in 0..1 : HandleHighlightDelete(i, TRUE)

SpecCollections == Init /\ [][NextCollections]_vars

\* The EDL b has the collections of the EDL a, all but coll as they were.
OthersUnchanged(a, b, coll) ==
    /\ DOMAIN b = DOMAIN a
    /\ \A k \in DOMAIN a \ {coll} : b[k] = a[k]

\* new is old with the fields set on the element at i (from 0), and new is
\* old without the element at i.
IsUpdateOf(old, new, i, fields) ==
    /\ Len(new) = Len(old)
    /\ \A j \in 1..Len(old) : j # i + 1 => new[j] = old[j]
    /\ DOMAIN new[i + 1] = DOMAIN old[i + 1] \cup DOMAIN fields
    /\ \A k \in DOMAIN new[i + 1] :
           new[i + 1][k] = IF k \in DOMAIN fields THEN fields[k] ELSE old[i + 1][k]
IsRemovalOf(old, new, i) ==
    /\ Len(new) = Len(old) - 1
    /\ \A j \in 1..Len(new) : new[j] = IF j <= i THEN old[j] ELSE old[j + 1]

\* C31: an update or a delete of a subtitle, a cut, a zoom or a highlight
\* at a valid index i leaves the other four collections as they were;
\* an update keeps the length of its collection and changes only the
\* supplied fields of element i, and a delete removes exactly element i
\* and keeps the order of the others.
C31_SingleCollectionEdit ==
    [][/\ \A i \in 0..2, f \in SubtitleFields :
              HandleSubtitleUpdate(i, f.text, TRUE) =>
                  /\ OthersUnchanged(analysis, analysis', "subtitles")
                  /\ IsUpdateOf(analysis.subtitles, analysis'.subtitles, i, f)
       /\ \A i \in 0..2 :
              HandleSubtitleDelete(i, TRUE) =>
                  /\ OthersUnchanged(analysis, analysis', "subtitles")
                  /\ IsRemovalOf(analysis.subtitles, analysis'.subtitles, i)
       /\ \A i \in 0..1, f \in CutFields :
              HandleCutUpdate(i, f, TRUE) =>
                  /\ OthersUnchanged(analysis, analysis', "cuts")
                  /\ IsUpdateOf(analysis.cuts, analysis'.cuts, i, f)
       /\ \A i \in 0..1 :
              HandleCutDelete(i, TRUE) =>
                  /\ OthersUnchanged(analysis, analysis', "cuts")
                  /\ IsRemovalOf(analysis.cuts, analysis'.cuts, i)
       /\ \A i \in 0..1, f \in ZoomFields :
              HandleZoomUpdate(i, f, TRUE) =>
                  /\ OthersUnchanged(analysis, analysis', "zooms")
                  /\ IsUpdateOf(analysis.zooms, analysis'.zooms, i, f)
       /\ \A i \in 0..1, f \in HighlightFields :
              HandleHighlightUpdate(i, f, TRUE) =>
                  /\ OthersUnchanged(analysis, analysis', "highlights")
                  /\ IsUpdateOf(analysis.highlights, analysis'.highlights, i, f)
       /\ \A i \in 0..1 :
              HandleHighlightDelete(i, TRUE) =>
                  /\ OthersUnchanged(analysis, analysis', "highlights")
                  /\ IsRemovalOf(analysis.highlights, analysis'.highlights, i)]_vars

\* The middle subtitle of three was deleted, then the focus of the second
\* zoom was set.
C31_Witness ==
    /\ Len(history) = 3 /\ historyIndex = 2
    /\ history[1] = EditResult
    /\ history[2].subtitles = <<EditResult.subtitles[1], EditResult.subtitles[3]>>
    /\ analysis.subtitles = history[2].subtitles
    /\ analysis.zooms[1] = EditResult.zooms[1]
    /\ analysis.zooms[2] = Spread(EditResult.zooms[2], [x |-> 10, y |-> 90])

(***************************************************************************)
(* Add-zoom at any position (SpecZoom).                                    *)
(***************************************************************************)
\* SpecZoom: a video is uploaded and analysed; the user seeks to the start,
\* the middle, near the end and the end of the media and adds zooms there;
\* Escape leaves the picker and the additions are undone.
ZoomTimes == {0, 4, MaxTime - 2, MaxTime}
NextZoom ==
    \/ RunEffects
    \/ (videoFile = "null" /\ HandleFileUpload("A"))
    \/ HandleLoadedMetadata
    \/ HandleAnalyze
    \/ \E result \in {Result0, Result1} : AnalyzeResolved(result, TRUE)
    \/ \E t \in ZoomTimes : Seek(t)
    \/ HandleAddZoom(TRUE)
    \/ \E key \in {"Escape", "Ctrl+Z"} : HandleKeyDown(key, TRUE)

SpecZoom == Init /\ [][NextZoom]_vars

\* arr is ordered by start.
OrderedByStart(arr) ==
    \A j, k \in 1..Len(arr) : j < k => arr[j].start <= arr[k].start

\* C32: add-zoom, once the duration of the media is known, is one record
\* step whose zooms are the old zooms and one new zoom, in the order of
\* their starts; the new zoom has x = 50, y = 50, start = the current time
\* and end = min(duration, start + 3 s), and its start is before its end.
C32_AddZoom ==
    [][(HandleAddZoom(TRUE) /\ duration > 0) =>
           /\ HistAfter.history = Append(Slice(history, historyIndex + 1), analysis')
           /\ HistAfter.historyIndex = historyIndex + 1
           /\ OthersUnchanged(analysis, analysis', "zooms")
           /\ Len(analysis'.zooms) = Len(analysis.zooms) + 1
           /\ OrderedByStart(analysis'.zooms)
           /\ \E n \in 1..Len(analysis'.zooms) :
                  LET z == analysis'.zooms[n]
                  IN  /\ IsRemovalOf(analysis'.zooms, analysis.zooms, n - 1)
                      /\ z.x = DefaultFocus /\ z.y = DefaultFocus
                      /\ z.start = currentTime
                      /\ z.end = Min(duration, currentTime + DefaultZoomLen)
                      /\ z.start < z.end]_vars

(***************************************************************************)
(* The skip notification and the position after a skip (SpecSync).         *)
(***************************************************************************)
\* The timers of the skips all wait 1000 ms, so they fire in the order of
\* their skips: of the pending timers the first to fire is the oldest, and
\* the notification on display was set by the latest skip, whose timer is
\* the youngest.  The two are the same timer when one timer is pending.
\* C33: a timer that clears a notification on display is the timer of the
\* skip that set it, not the timer of an earlier skip.
C33_NotificationWindow ==
    [][(TimerFires /\ skipNotification # "null") => timers = 1]_vars

\* An analysis result with adjacent cuts at the start and a cut that
\* reaches the end of the media.
SkipResult ==
    [cuts      |-> << [start |-> 0, end |-> 2, reason |-> "silence"],
                      [start |-> 2, end |-> 3, reason |-> "filler"],
                      [start |-> 6, end |-> MaxTime, reason |-> "outro"] >>,
     chapters  |-> <<>>,
     zooms     |-> <<>>,
     subtitles |-> << [start |-> 3, end |-> 6, text |-> Text(2)] >>,
     highlights |-> <<>>]

\* An analysis result whose last cut ends after the end of the media.
EndResult ==
    [cuts      |-> << [start |-> MaxTime - 2, end |-> MaxTime + 2,
                       reason |-> "outro"] >>,
     chapters  |-> <<>>,
     zooms     |-> <<>>,
     subtitles |-> << [start |-> 0, end |-> 4, text |-> Text(1)] >>,
     highlights |-> <<>>]

\* SpecSkip: a video is uploaded and analysed into an EDL with one cut,
\* with overlapping cuts, with adjacent cuts or with a cut that ends after
\* the end of the media; it plays and is paused, the
\* media clock advances and ticks, and nobody seeks: the controller's
\* currentTime changes by ticks alone.
NextSkip ==
    \/ RunEffects
    \/ (videoFile = "null" /\ HandleFileUpload("A"))
    \/ HandleLoadedMetadata
    \/ HandleAnalyze
    \/ \E result \in {Result1, Result2, SkipResult, EndResult} :
           AnalyzeResolved(result, TRUE)
    \/ \E click \in QuotaClicks : PlayerHandleVideoClick(click, TRUE)
    \/ Advance(1)
    \/ HandleTimeUpdate
    \/ TimerFires

SpecSkip == Init /\ [][NextSkip]_vars

\* C35: when a tick at the controller's currentTime, inside a cut, has set
\* the position to the end of that cut, the effect on [currentTime] that
\* follows leaves the position outside that cut.
C35_SyncKeepsSkip ==
    [][(RunEffects /\ "time" \in pending /\ analysis # Null) =>
           \A i \in CutsAt(currentTime) :
               videoTime = SeekTarget(analysis.cuts[i].end) =>
                   ~InCut(analysis.cuts[i], videoTime')]_vars

(***************************************************************************)
(* The picker index and the history (SpecStale).                           *)
(***************************************************************************)
\* C34: while the picker is picking index i, there is a current EDL and i
\* is the index of one of its zooms; and every zoom of the current EDL has
\* a start and an end.
C34_PickerIndexValid ==
    /\ pickingZoomIndex # NullIndex =>
           /\ analysis # Null
           /\ pickingZoomIndex \in Indices(analysis.zooms)
    /\ analysis # Null =>
           \A k \in 1..Len(analysis.zooms) : HasTimes(analysis.zooms[k])

\* SpecSkipFair: SpecSkip where, while it can, the media element keeps
\* firing timeupdate, React keeps running the effects of a render, and the
\* timers keep firing.
SpecSkipFair ==
    /\ SpecSkip
    /\ WF_vars(HandleTimeUpdate)
    /\ WF_vars(RunEffects)
    /\ WF_vars(TimerFires)

\* The position is inside a cut of the current EDL.
InSomeCut == analysis # Null /\ CutsAt(videoTime) # {}

\* C36: every skip sets the position to a greater time, and a playing
\* video whose position is inside a cut reaches a position inside no cut,
\* or the end of the media, unless it is paused before.
C36_SkipProgress ==
    /\ [][(HandleTimeUpdate /\ InSomeCut) => videoTime' > videoTime]_vars
    /\ (isPlaying /\ InSomeCut) ~>
           (~InSomeCut \/ videoTime = MaxTime \/ ~isPlaying)

(***************************************************************************)
(* Uploads, analysis calls and the persisted state (SpecLate, SpecPersist). *)
(***************************************************************************)
\* What the analysis service answers for each video.
AnalysisOf(file) == IF file = "A" THEN Result0 ELSE Result1

\* SpecLate: videos are uploaded one after another, also while the analysis
\* call of an earlier one is in flight; the call answers for the video it
\* was given, or fails; the blob store answers.
NextLate ==
    \/ RunEffects
    \/ \E file \in {"A", "B"} : HandleFileUpload(file)
    \/ \E file \in {"A", "B"} : SaveVideoDone(file, TRUE)
    \/ HandleLoadedMetadata
    \/ HandleAnalyze
    \/ (analyzeCall # "null" /\ AnalyzeResolved(AnalysisOf(analyzeCall), TRUE))
    \/ AnalyzeRejected

SpecLate == Init /\ [][NextLate]_vars

\* C37: the answer of an analysis call that was given another video than
\* the current one changes neither the current EDL, nor the history, nor
\* the persisted EDL.
C37_LateResultDropped ==
    [][(AnalyzeResolved(AnalysisOf(analyzeCall), TRUE) /\ analyzeCall # videoFile) =>
           UNCHANGED <<analysis, history, historyIndex, lsAnalysis>>]_vars

\* SpecPersist: videos are uploaded one after another and analysed, one
\* thing at a time: a video is uploaded while no analysis call and no save
\* is in flight, and analysed once it is saved; the blob store answers,
\* and the page is reloaded.
NextPersist ==
    \/ RunEffects
    \/ \E file \in {"A", "B"} :
           (analyzeCall = "null" /\ saving = {} /\ HandleFileUpload(file))
    \/ \E file \in {"A", "B"} : SaveVideoDone(file, TRUE)
    \/ HandleLoadedMetadata
    \/ (saving = {} /\ HandleAnalyze)
    \/ (analyzeCall # "null" /\ AnalyzeResolved(AnalysisOf(analyzeCall), TRUE))
    \/ Reload
    \/ LoadVideoDone

SpecPersist == Init /\ [][NextPersist]_vars

\* C38: the persisted EDL is the EDL of the video whose id is persisted,
\* and a current EDL next to a current video is the EDL of that video.
C38_PersistedSameUpload ==
    /\ (lsAnalysis # NoItem /\ lsVideoId # "null") =>
           lsAnalysis = Stringify(AnalysisOf(lsVideoId))
    /\ (analysis # Null /\ videoFile # "null") =>
           analysis = AnalysisOf(videoFile)

(***************************************************************************)
(* The decoding indicator (SpecWave).                                      *)
(***************************************************************************)
\* C39: the decoding indicator is set exactly when a load of the current
\* source, one that no later load has aborted, is in flight.
C39_DecodingIndicator ==
    isDecoding <=> \E l \in loads : ~l.aborted /\ l.src = videoUrl

(***************************************************************************)
(* The history cursor (Spec).                                              *)
(***************************************************************************)
\* C40: the cursor is -1 exactly when the history has no entry, and
\* otherwise it is the index of an entry: 0 <= cursor < entries.length.
C40_CursorInRange ==
    /\ historyIndex = -1 <=> history = <<>>
    /\ history # <<>> => 0 <= historyIndex /\ historyIndex < Len(history)

\* A redo reached the last of the entries, a second redo left the cursor
\* there, and an undo moved it to the entry before.
C40_Witness ==
    /\ trail = <<"redo", "redo-noop", "undo">>
    /\ Len(history) = MaxHist /\ historyIndex = MaxHist - 2

====
